---------------------------- MODULE Spec2Model ----------------------------
(***************************************************************************)
(* Act/section tagging and evaluation of sohilydv/fir-rag.                 *)
(*                                                                         *)
(* A text is a sequence of characters.  An ASCII character is the          *)
(* one-character string; a Devanagari cluster that the patterns of         *)
(* app/ipc_tagger.py never split is one symbol whose name starts with      *)
(* "hi_" (for instance "hi_bhA" is the two code points of the syllable     *)
(* bha+aa, the first two code points of the word bharatiya).               *)
(***************************************************************************)
EXTENDS Integers, Sequences, FiniteSets, TLC

(***************************************************************************)
(* Bounds of the model.                                                    *)
(***************************************************************************)
\* comma fragments appended to one citation string
MaxParts == 3

(***************************************************************************)
(* Characters.                                                             *)
(***************************************************************************)
UPPER == <<"A","B","C","D","E","F","G","H","I","J","K","L","M",
           "N","O","P","Q","R","S","T","U","V","W","X","Y","Z">>
LOWER == <<"a","b","c","d","e","f","g","h","i","j","k","l","m",
           "n","o","p","q","r","s","t","u","v","w","x","y","z">>
DIGITS == <<"0","1","2","3","4","5","6","7","8","9">>

Range(s) == {s[i] : i \in DOMAIN s}

UpperSet == Range(UPPER)
LowerSet == Range(LOWER)
DigitSet == Range(DIGITS)
SpaceSet == {" ", "\t", "\n"}

LowerOf == [c \in UpperSet |-> LOWER[CHOOSE i \in DOMAIN UPPER : UPPER[i] = c]]
UpperOf == [c \in LowerSet |-> UPPER[CHOOSE i \in DOMAIN LOWER : LOWER[i] = c]]

\* str.lower() on one character
Lower(c) == IF c \in UpperSet THEN LowerOf[c] ELSE c

\* str.upper() on one character
Upper(c) == IF c \in LowerSet THEN UpperOf[c] ELSE c

RECURSIVE LowerExpanded(_)
\* str.lower() where the capital I with a dot, U+0130, stands in the string:
\* it becomes two code points, i and the combining dot U+0307
LowerExpanded(t) ==
    IF t = <<>> THEN <<>>
    ELSE (IF Head(t) = "I_dot" THEN <<"i", "dot_above">> ELSE <<Lower(Head(t))>>)
            \o LowerExpanded(Tail(t))

\* str.lower()
LowerStr(t) ==
    IF \A i \in DOMAIN t : t[i] # "I_dot" THEN [i \in DOMAIN t |-> Lower(t[i])]
    ELSE LowerExpanded(t)

\* the character a lower-case literal is compared with under re.IGNORECASE:
\* U+0130 matches the literal i
Fold(c) == IF c = "I_dot" THEN "i" ELSE Lower(c)

\* the text as re.IGNORECASE compares it with lower-case literals
FoldStr(t) == [i \in DOMAIN t |-> Fold(t[i])]

\* regex \d
IsDigit(c) == c \in DigitSet

\* regex \s, and what str.strip() removes
IsSpace(c) == c \in SpaceSet

\* Devanagari clusters whose last code point is a combining mark (a vowel
\* sign, anusvara or virama), which regex \w does not match.
HI_ENDS_IN_MARK == {"hi_bhA", "hi_daM", "hi_saM", "hi_hitA", "hi_bI", "hi_evaM",
                    "hi_aparAdho", "hi_M", "hi_virama", "hi_se", "hi_bAlako",
                    "hi_kA", "hi_sUchanA", "hi_yogikI", "hi_jAti",
                    "hi_janajAti", "hi_ke", "hi_prati", "hi_krUratA"}

\* Devanagari symbols that are a bare combining mark.
HI_STARTS_WITH_MARK == {"hi_M", "hi_virama"}

IsLatin(c) == c \in UpperSet \/ c \in LowerSet

IsHindi(c) == Len(c) > 3 /\ SubSeq(c, 1, 3) = "hi_"

\* regex \w on the first code point of a character
IsWordFirst(c) == \/ IsLatin(c) \/ IsDigit(c) \/ c = "_" \/ c = "I_dot"
                  \/ (IsHindi(c) /\ c \notin HI_STARTS_WITH_MARK)

\* regex \w on the last code point of a character
IsWordLast(c) == \/ IsLatin(c) \/ IsDigit(c) \/ c = "_" \/ c = "I_dot"
                 \/ (IsHindi(c) /\ c \notin HI_ENDS_IN_MARK)

\* regex \b between position i and i+1 of t (i characters consumed)
AtWordBoundary(t, i) ==
    LET before == i >= 1 /\ IsWordLast(t[i])
        after  == i < Len(t) /\ IsWordFirst(t[i + 1])
    IN before # after

(***************************************************************************)
(* Regular expressions of the alias tables.  A pattern is a sequence of    *)
(* elements: a literal character, an optional character (c?), \s* and \b.  *)
(* All of them are written in lower case and searched with re.IGNORECASE: *)
(* the text is folded (FoldStr) and compared with the literals.            *)
(***************************************************************************)
L(c) == [k |-> "lit", c |-> c]
O(c) == [k |-> "opt", c |-> c]
WS == [k |-> "ws", c |-> ""]
WB == [k |-> "wb", c |-> ""]

\* the literals of a word, one element per character
Lits(w) == [i \in DOMAIN w |-> L(w[i])]

RECURSIVE MatchFrom(_, _, _, _)
\* the elements k.. of pattern p match the folded text t from offset i
MatchFrom(p, k, t, i) ==
    IF k > Len(p) THEN TRUE
    ELSE LET e == p[k]
             here == i < Len(t) /\ t[i + 1] = e.c
         IN CASE e.k = "lit" -> here /\ MatchFrom(p, k + 1, t, i + 1)
              [] e.k = "opt" -> \/ (here /\ MatchFrom(p, k + 1, t, i + 1))
                                \/ MatchFrom(p, k + 1, t, i)
              [] e.k = "ws"  -> \/ MatchFrom(p, k + 1, t, i)
                                \/ /\ i < Len(t)
                                   /\ IsSpace(t[i + 1])
                                   /\ MatchFrom(p, k, t, i + 1)
              [] e.k = "wb"  -> AtWordBoundary(t, i) /\ MatchFrom(p, k + 1, t, i)

\* the literal every match of p starts with: each pattern of the tables is
\* a literal, or \b and a literal, followed by the rest
FirstLiteral(p) == IF p[1].k = "wb" THEN p[2].c ELSE p[1].c

\* re.search(p, t, flags=re.IGNORECASE) is not None, for a folded text t: a
\* match can only start where the first literal of p stands
Search(p, t) ==
    \E i \in {j \in 0..(Len(t) - 1) : t[j + 1] = FirstLiteral(p)} : MatchFrom(p, 1, t, i)

ACT_TAGS == {"IPC_1860", "BNS_2023", "ELECTRICITY_ACT_2003", "MMDR_ACT_1957",
             "ARMS_ACT_1959", "DOWRY_PROHIBITION_ACT_1961", "POCSO_2012",
             "IT_ACT_2000", "SCST_ACT_1989", "PCA_1960"}

\* the act tags in the order sorted() gives them
ACT_ORDER == <<"ARMS_ACT_1959", "BNS_2023", "DOWRY_PROHIBITION_ACT_1961",
               "ELECTRICITY_ACT_2003", "IPC_1860", "IT_ACT_2000",
               "MMDR_ACT_1957", "PCA_1960", "POCSO_2012", "SCST_ACT_1989">>

P_ipc == <<WB>> \o Lits(<<"i","p","c">>) \o <<WB>>
P_i_p_c == <<WB, L("i"), O("."), WS, L("p"), O("."), WS, L("c"), O("."), WB>>
P_bha_dam_sam == <<L("hi_bhA"), WS, L("hi_daM"), WS, L("hi_saM")>>
P_bns == <<WB>> \o Lits(<<"b","n","s">>) \o <<WB>>
P_bi_en_es == <<L("hi_bI"), WS, L("hi_en"), WS, L("hi_es")>>

ACT_ALIAS_PATTERNS ==
    [tag \in ACT_TAGS |->
       CASE tag = "IPC_1860" ->
              { P_ipc, P_i_p_c, P_bha_dam_sam,
                <<L("hi_bhA"), L("hi_ratIya"), WS, L("hi_daM"), L("hi_Da"), WS,
                  L("hi_saM"), L("hi_hitA")>>,
                <<L("hi_bhA"), L("hi_ratIya"), WS, L("hi_daNDa"), WS,
                  L("hi_saM"), L("hi_hitA")>>,
                Lits(<<"i","n","d","i","a","n">>) \o <<WS>>
                  \o Lits(<<"p","e","n","a","l">>) \o <<WS>>
                  \o Lits(<<"c","o","d","e">>) }
         [] tag = "BNS_2023" ->
              { P_bns, P_bi_en_es,
                <<L("hi_bhA"), L("hi_ratIya"), WS, L("hi_nyAya"), WS,
                  L("hi_saM"), L("hi_hitA")>>,
                Lits(<<"b","h","a","r","a","t","i","y","a">>) \o <<WS>>
                  \o Lits(<<"n","y","a","y","a">>) \o <<WS>>
                  \o Lits(<<"s","a","n","h","i","t","a">>) }
         [] tag = "ELECTRICITY_ACT_2003" ->
              { <<L("hi_vidyut"), WS, L("hi_adhiniyam")>>,
                Lits(<<"e","l","e","c","t","r","i","c","i","t","y">>) \o <<WS>>
                  \o Lits(<<"a","c","t">>) }
         [] tag = "MMDR_ACT_1957" ->
              { <<L("hi_khAn"), WS, L("hi_evaM"), WS, L("hi_khanij")>>,
                <<L("hi_khAn"), WS, L("hi_aur"), WS, L("hi_khanij")>>,
                <<L("hi_khanij"), WS, L("("), L("hi_viniyaman")>>,
                Lits(<<"m","m","d","r">>),
                Lits(<<"m","i","n","e">>) \o <<O("s"), WS>>
                  \o Lits(<<"a","n","d">>) \o <<WS>>
                  \o Lits(<<"m","i","n","e","r","a","l","s">>) }
         [] tag = "ARMS_ACT_1959" ->
              { <<L("hi_Ayudh"), WS, L("hi_adhiniyam")>>,
                Lits(<<"a","r","m","s">>) \o <<WS>> \o Lits(<<"a","c","t">>) }
         [] tag = "DOWRY_PROHIBITION_ACT_1961" ->
              { <<L("hi_dahej"), WS, L("hi_pratiShedh"), WS, L("hi_adhiniyam")>>,
                Lits(<<"d","o","w","r","y">>) \o <<WS>>
                  \o Lits(<<"p","r","o","h","i","b","i","t","i","o","n">>) }
         [] tag = "POCSO_2012" ->
              { <<L("hi_laiMgik"), WS, L("hi_aparAdho"), O("hi_M"), WS,
                  L("hi_se"), WS, L("hi_bAlako"), O("hi_M"), WS, L("hi_kA"), WS,
                  L("hi_sar"), O("hi_M"), L("hi_kShaN"), WS, L("hi_adhiniyam")>>,
                Lits(<<"p","o","c","s","o">>) }
         [] tag = "IT_ACT_2000" ->
              { <<L("hi_sUchanA"), WS, L("hi_praud"), O("hi_virama"),
                  L("hi_yogikI")>>,
                Lits(<<"i","n","f","o","r","m","a","t","i","o","n">>) \o <<WS>>
                  \o Lits(<<"t","e","c","h","n","o","l","o","g","y">>),
                <<WB, L("i"), L("t"), WS, L("a"), L("c"), L("t"), WB>> }
         [] tag = "SCST_ACT_1989" ->
              { <<L("hi_anusUchit"), WS, L("hi_jAti"), WS, L("hi_evaM"), WS,
                  L("hi_anusUchit"), WS, L("hi_janajAti")>>,
                <<WB, L("s"), L("c"), WS, O("/"), WS, L("s"), L("t"), WB>> }
         [] tag = "PCA_1960" ->
              { <<L("hi_pashuo"), O("hi_M"), WS, L("hi_ke"), WS, L("hi_prati"),
                  WS, L("hi_krUratA")>>,
                Lits(<<"p","r","e","v","e","n","t","i","o","n">>) \o <<WS>>
                  \o Lits(<<"o","f">>) \o <<WS>>
                  \o Lits(<<"c","r","u","e","l","t","y">>) \o <<WS>>
                  \o Lits(<<"t","o">>) \o <<WS>>
                  \o Lits(<<"a","n","i","m","a","l","s">>) }]

SHORTFORM_TAGS == {"IPC_1860", "BNS_2023"}

SHORTFORM_PATTERNS ==
    [tag \in SHORTFORM_TAGS |->
       IF tag = "IPC_1860" THEN {P_ipc, P_i_p_c, P_bha_dam_sam}
                           ELSE {P_bns, P_bi_en_es}]

\* the match that compares the text as written with the lower-case literals
match_act_tags_as_written(text) ==
    {tag \in ACT_TAGS : \E p \in ACT_ALIAS_PATTERNS[tag] : Search(p, text)}

\* _match_act_tags: the acts one of whose patterns is found in the text
match_act_tags(text) ==
    UNION {{tag \in ACT_TAGS : \E p \in ACT_ALIAS_PATTERNS[tag] : Search(p, lowered)} :
              lowered \in {FoldStr(LowerStr(text))}}


(***************************************************************************)
(* Section codes.  A code is the character sequence the regex captured.    *)
(***************************************************************************)
\* code point order of the characters a captured code can hold
CODE_CHARS == <<"(", ")", "0", "1", "2", "3", "4", "5", "6", "7", "8", "9">> \o UPPER

CodePoint(c) == CHOOSE i \in DOMAIN CODE_CHARS : CODE_CHARS[i] = c

\* a < b as Python compares two strings
StrLess(a, b) ==
    \E k \in 1..(Len(a) + 1) :
        /\ k <= Len(b)
        /\ \A j \in 1..(k - 1) : a[j] = b[j]
        /\ \/ k = Len(a) + 1
           \/ CodePoint(a[k]) < CodePoint(b[k])

RECURSIVE SortedList(_)
\* sorted(S) for a set S of strings
SortedList(S) ==
    IF S = {} THEN <<>>
    ELSE LET least == CHOOSE x \in S : \A y \in S \ {x} : StrLess(x, y)
         IN <<least>> \o SortedList(S \ {least})

\* the number of digits, at most max, that follow offset i
DigitRun(t, i, max) ==
    CHOOSE n \in 0..max :
        /\ \A j \in 1..n : i + j <= Len(t) /\ IsDigit(t[i + j])
        /\ n = max \/ i + n + 1 > Len(t) \/ ~IsDigit(t[i + n + 1])

\* the offset where \d{1,4}(?:\(\d+\))? ends when it starts at offset i on a digit
CodeEnd(t, i) ==
    LET e == i + DigitRun(t, i, 4)
        m == IF e < Len(t) /\ t[e + 1] = "(" THEN DigitRun(t, e + 1, Len(t)) ELSE 0
    IN IF m >= 1 /\ e + m + 2 <= Len(t) /\ t[e + m + 2] = ")"
       THEN e + m + 2
       ELSE e

\* the offset after the whitespace run that starts at offset i
SkipSpace(t, i) ==
    CHOOSE j \in i..Len(t) :
        /\ \A k \in (i + 1)..j : IsSpace(t[k])
        /\ j = Len(t) \/ ~IsSpace(t[j + 1])

RECURSIVE HyphenCodes(_, _)
\* re.findall(r"-\s*(\d{1,4}(?:\(\d+\))?)", t) from offset i on
HyphenCodes(t, i) ==
    IF i >= Len(t) THEN <<>>
    ELSE IF t[i + 1] # "-" THEN HyphenCodes(t, i + 1)
    ELSE LET j == SkipSpace(t, i + 1)
         IN IF j < Len(t) /\ IsDigit(t[j + 1])
            THEN <<SubSeq(t, j + 1, CodeEnd(t, j))>> \o HyphenCodes(t, CodeEnd(t, j))
            ELSE HyphenCodes(t, i + 1)

RECURSIVE BareCodes(_, _)
\* _SECTION_CODE_RE.findall(t) from offset i on
BareCodes(t, i) ==
    IF i >= Len(t) THEN <<>>
    ELSE IF IsDigit(t[i + 1])
         THEN <<SubSeq(t, i + 1, CodeEnd(t, i))>> \o BareCodes(t, CodeEnd(t, i))
         ELSE BareCodes(t, i + 1)

DigitValue(c) == (CHOOSE i \in DOMAIN DIGITS : DIGITS[i] = c) - 1

RECURSIVE IntOf(_)
\* int(s) for a string of digits
IntOf(s) == IF s = <<>> THEN 0
            ELSE 10 * IntOf(SubSeq(s, 1, Len(s) - 1)) + DigitValue(s[Len(s)])

\* token.split("(")[0]
BeforeParen(token) == SubSeq(token, 1, DigitRun(token, 0, 4))

YEAR_MIN == 1800
YEAR_MAX == 2099

\* the year test with both ends of the range left out
IsYear_exclusive(token) ==
    LET number == IntOf(BeforeParen(token))
    IN YEAR_MIN < number /\ number < YEAR_MAX

\* the test of the fallback scan: the token is a likely year
IsYear(token) ==
    LET number == IntOf(BeforeParen(token))
    IN YEAR_MIN <= number /\ number <= YEAR_MAX

\* the extraction that always adds the bare-digit scan to the hyphen codes
extract_section_codes_merged(text) ==
    SortedList(Range(HyphenCodes(text, 0))
               \cup Range(SelectSeq(BareCodes(text, 0), LAMBDA token : ~IsYear(token))))

\* _extract_section_codes
extract_section_codes(text) ==
    LET hyphen_codes == HyphenCodes(text, 0)
    IN IF hyphen_codes # <<>>
       THEN SortedList(Range(hyphen_codes))
       ELSE SortedList(Range(SelectSeq(BareCodes(text, 0), LAMBDA token : ~IsYear(token))))

(***************************************************************************)
(* Python values.  A value is [type, val]: val holds the characters of a   *)
(* string, the digits of an integer, the elements of a list.               *)
(***************************************************************************)
Str(s) == [type |-> "str", val |-> s]
None == [type |-> "none", val |-> <<>>]
IntVal(digits) == [type |-> "int", val |-> digits]
ListVal(items) == [type |-> "list", val |-> items]

\* bool(v)
Truthy(v) == CASE v.type = "none" -> FALSE
               [] v.type = "int" -> v.val # <<"0">>
               [] OTHER -> v.val # <<>>

\* str(v) for the values a token can be
PyStr(v) == IF v.type = "list" THEN <<"[">> \o v.val \o <<"]">> ELSE v.val

\* s.strip()
Strip(s) ==
    IF \A i \in DOMAIN s : IsSpace(s[i]) THEN <<>>
    ELSE LET first == CHOOSE i \in DOMAIN s :
                         ~IsSpace(s[i]) /\ \A j \in 1..(i - 1) : IsSpace(s[j])
             last == CHOOSE i \in DOMAIN s :
                         ~IsSpace(s[i]) /\ \A j \in (i + 1)..Len(s) : IsSpace(s[j])
         IN SubSeq(s, first, last)

\* s.replace(c, "") for each c of the set
Without(s, chars) == SelectSeq(s, LAMBDA c : c \notin chars)

\* SECTION_TOKEN_RE.match(s): ^(\d{1,4}[A-Za-z]?)$, where $ also matches before
\* a newline that ends the string
SECTION_TOKEN_RE(s) ==
    \E d \in 1..4 :
        /\ d <= Len(s)
        /\ \A j \in 1..d : IsDigit(s[j])
        /\ LET rest == SubSeq(s, d + 1, Len(s))
           IN \/ rest = <<>>
              \/ rest = <<"\n">>
              \/ Len(rest) = 1 /\ IsLatin(rest[1])
              \/ Len(rest) = 2 /\ IsLatin(rest[1]) /\ rest[2] = "\n"

\* normalize_section_token
normalize_section_token(token) ==
    IF token.type = "none" THEN <<>>
    ELSE LET stripped == [i \in DOMAIN Strip(PyStr(token)) |-> Upper(Strip(PyStr(token))[i])]
             cleaned == Without(Without(stripped, {" "}), {"(", ")"})
         IN IF SECTION_TOKEN_RE(cleaned) THEN cleaned ELSE <<>>

(***************************************************************************)
(* tag_sections_line (app/ipc_tagger.py).                                  *)
(***************************************************************************)
\* the Hindi labels, transliterated
ACT_LABELS_HI ==
    [tag \in ACT_TAGS |->
       CASE tag = "IPC_1860" -> "bharatiya dand sanhita (IPC 1860)"
         [] tag = "BNS_2023" -> "bharatiya nyaya sanhita (BNS 2023)"
         [] tag = "ELECTRICITY_ACT_2003" -> "vidyut adhiniyam 2003"
         [] tag = "MMDR_ACT_1957" -> "khan evam khanij adhiniyam 1957"
         [] tag = "ARMS_ACT_1959" -> "ayudh adhiniyam 1959"
         [] tag = "DOWRY_PROHIBITION_ACT_1961" -> "dahej pratishedh adhiniyam 1961"
         [] tag = "POCSO_2012" -> "pocso adhiniyam 2012"
         [] tag = "IT_ACT_2000" -> "suchana praudyogiki adhiniyam 2000"
         [] tag = "SCST_ACT_1989" -> "SC/ST atyachar nivaran adhiniyam 1989"
         [] tag = "PCA_1960" -> "pashu krurata nivaran adhiniyam 1960"]

\* sorted(S) for a set of act tags
SortedTags(S) == SelectSeq(ACT_ORDER, LAMBDA tag : tag \in S)

RECURSIVE Split(_, _)
\* s.split(sep)
Split(s, sep) ==
    IF \A i \in DOMAIN s : s[i] # sep THEN <<s>>
    ELSE LET at == CHOOSE i \in DOMAIN s : s[i] = sep /\ \A j \in 1..(i - 1) : s[j] # sep
         IN <<SubSeq(s, 1, at - 1)>> \o Split(SubSeq(s, at + 1, Len(s)), sep)

\* [p.strip() for p in sections_line.split(",") if p.strip()]
SplitParts(s) ==
    LET pieces == Split(s, ",")
        stripped == [i \in DOMAIN pieces |-> Strip(pieces[i])]
    IN SelectSeq(stripped, LAMBDA p : p # <<>>)

\* the return value for a falsy argument
EmptyTags == [status |-> "ok", act_tags |-> <<>>, act_labels_hi |-> <<>>,
              all_sections |-> <<>>, ipc_sections |-> <<>>,
              ipc_sections_raw |-> <<>>, bns_sections |-> <<>>,
              shortform_hits |-> <<>>]

\* the call raised (text.lower() of a value that is no string) and returned nothing
RaisedTags == [EmptyTags EXCEPT !.status = "raised"]

\* d.get(tag, set()) and d.setdefault(tag, set())
Get(d, tag) == IF tag \in DOMAIN d THEN d[tag] ELSE {}

\* the state the fragment loop starts in
WalkInit(act_tags) == [current_tags |-> {}, act_to_sections |-> [tag \in act_tags |-> {}]]

\* the targets without the fall-back on the acts of the whole string
target_tags_without_fallback(matched, current, act_tags) ==
    IF matched # {} THEN matched ELSE current

\* the acts a fragment's codes are added to
target_tags(matched, current, act_tags) ==
    IF matched # {} THEN matched
    ELSE IF current # {} THEN current
    ELSE act_tags

\* the context merged with the fragment's acts instead of replaced by them
next_current_tags_merged(matched, current) == matched \cup current

\* the new current_tags after a fragment
next_current_tags(matched, current) == IF matched # {} THEN matched ELSE current

\* the update as an overwrite (d[tag] = set(section_codes))
update_sections_overwrite(d, targets, section_codes) ==
    [tag \in DOMAIN d \cup targets |->
        IF tag \in targets THEN section_codes ELSE d[tag]]

\* act_to_sections.setdefault(tag, set()).update(section_codes) for tag in targets
update_sections(d, targets, section_codes) ==
    [tag \in DOMAIN d \cup targets |->
        IF tag \in targets THEN Get(d, tag) \cup section_codes ELSE d[tag]]

\* one pass of the loop over the fragments
WalkStep(st, part, act_tags) ==
    LET matched == match_act_tags(part)
        current == next_current_tags(matched, st.current_tags)
        section_codes == Range(extract_section_codes(part))
    IN IF section_codes = {}
       THEN [st EXCEPT !.current_tags = current]
       ELSE [current_tags |-> current,
             act_to_sections |->
                 update_sections(st.act_to_sections,
                                 target_tags(matched, current, act_tags),
                                 section_codes)]

RECURSIVE WalkFrom(_, _, _, _)
\* the loop, from fragment i on
WalkFrom(parts, i, st, act_tags) ==
    IF i > Len(parts) THEN st
    ELSE WalkFrom(parts, i + 1, WalkStep(st, parts[i], act_tags), act_tags)

\* "If no assignment happened but we do have sections + acts, assign globally."
assign_globally(act_to_sections, all_sections, act_tags) ==
    IF /\ all_sections # <<>>
       /\ act_tags # {}
       /\ \A tag \in DOMAIN act_to_sections : act_to_sections[tag] = {}
    THEN [tag \in DOMAIN act_to_sections \cup act_tags |->
             IF tag \in act_tags THEN Range(all_sections) ELSE act_to_sections[tag]]
    ELSE act_to_sections

\* the acts found by the abbreviation-only patterns, on the text as given
shortform_hits(text) ==
    UNION {{tag \in SHORTFORM_TAGS : \E p \in SHORTFORM_PATTERNS[tag] : Search(p, folded)} :
              folded \in {FoldStr(text)}}

\* reference_ipc_sections or set()
NoReference == [type |-> "none", val |-> {}]
Reference(S) == [type |-> "set", val |-> S]
OrEmptySet(reference) == IF reference.type = "none" THEN {} ELSE reference.val

\* the validation that looks the raw code up, not its normalized form
validate_ipc_sections_raw_lookup(ipc_sections, reference_sections) ==
    IF reference_sections = {} THEN ipc_sections
    ELSE SortedList({section \in Range(ipc_sections) : section \in reference_sections})

\* _validate_ipc_sections
validate_ipc_sections(ipc_sections, reference_sections) ==
    IF reference_sections = {} THEN ipc_sections
    ELSE SortedList({section \in Range(ipc_sections) :
                        LET normalized == normalize_section_token(Str(section))
                        IN normalized # <<>> /\ normalized \in reference_sections})

\* the returned dictionary with the two per-act keys taken for each other
tag_result_swapped(text, act_tags, all_sections, act_to_sections, reference) ==
    LET ipc_sections_raw == SortedList(Get(act_to_sections, "BNS_2023"))
        ordered_tags == SortedTags(act_tags)
    IN [status |-> "ok",
        act_tags |-> ordered_tags,
        act_labels_hi |-> [i \in DOMAIN ordered_tags |-> ACT_LABELS_HI[ordered_tags[i]]],
        all_sections |-> SortedList(Range(all_sections)),
        ipc_sections |-> validate_ipc_sections(ipc_sections_raw, OrEmptySet(reference)),
        ipc_sections_raw |-> ipc_sections_raw,
        bns_sections |-> SortedList(Get(act_to_sections, "IPC_1860")),
        shortform_hits |-> SortedTags(shortform_hits(text))]

\* the dictionary tag_sections_line returns after the loop
tag_result(text, act_tags, all_sections, act_to_sections, reference) ==
    LET ipc_sections_raw == SortedList(Get(act_to_sections, "IPC_1860"))
        ordered_tags == SortedTags(act_tags)
    IN [status |-> "ok",
        act_tags |-> ordered_tags,
        act_labels_hi |-> [i \in DOMAIN ordered_tags |-> ACT_LABELS_HI[ordered_tags[i]]],
        all_sections |-> SortedList(Range(all_sections)),
        ipc_sections |-> validate_ipc_sections(ipc_sections_raw, OrEmptySet(reference)),
        ipc_sections_raw |-> ipc_sections_raw,
        bns_sections |-> SortedList(Get(act_to_sections, "BNS_2023")),
        shortform_hits |-> SortedTags(shortform_hits(text))]

\* the tagger that takes a citation naming no act for one of the penal code
tag_sections_line_default_ipc(sections_line, reference) ==
    IF ~Truthy(sections_line) THEN EmptyTags
    ELSE IF sections_line.type # "str" THEN RaisedTags
    ELSE LET text == sections_line.val
             act_tags == IF match_act_tags(text) = {} THEN {"IPC_1860"}
                         ELSE match_act_tags(text)
             all_sections == extract_section_codes(text)
             walked == WalkFrom(SplitParts(text), 1, WalkInit(act_tags), act_tags)
         IN tag_result(text, act_tags, all_sections,
                       assign_globally(walked.act_to_sections, all_sections, act_tags),
                       reference)

\* tag_sections_line
tag_sections_line(sections_line, reference) ==
    IF ~Truthy(sections_line) THEN EmptyTags
    ELSE IF sections_line.type # "str" THEN RaisedTags
    ELSE LET text == sections_line.val
             act_tags == match_act_tags(text)
             all_sections == extract_section_codes(text)
             walked == WalkFrom(SplitParts(text), 1, WalkInit(act_tags), act_tags)
         IN tag_result(text, act_tags, all_sections,
                       assign_globally(walked.act_to_sections, all_sections, act_tags),
                       reference)

(***************************************************************************)
(* act_section_eval.py: the expected citation tags of a retrieved record   *)
(* and the binary accuracy of a predicted text against them.  A record is  *)
(* a dict over the keys below; a key it does not hold maps to Absent.      *)
(***************************************************************************)
Absent == [type |-> "absent", val |-> <<>>]

\* d.get(key)
DictGet(d, key) == IF d[key].type = "absent" THEN None ELSE d[key]

\* d.get(key, default)
DictGetOr(d, key, default) == IF d[key].type = "absent" THEN default ELSE d[key]

\* x or y
Or(x, y) == IF Truthy(x) THEN x ELSE y

\* the literal of _SECTIONS_LINE_RE
SECTIONS_LABEL == <<"S", "e", "c", "t", "i", "o", "n", "s", ":">>

\* the offsets where ^ matches under re.MULTILINE
LineStarts(t) == {0} \cup {i \in 1..Len(t) : t[i] = "\n"}

\* the offset where the line holding offset i ends ($ under re.MULTILINE)
LineEnd(t, i) ==
    CHOOSE j \in i..Len(t) :
        /\ \A k \in (i + 1)..j : t[k] # "\n"
        /\ j = Len(t) \/ t[j + 1] = "\n"

\* ^\s*Sections: matches at offset i
SectionsLineAt(t, i) ==
    LET j == SkipSpace(t, i)
    IN j + Len(SECTIONS_LABEL) <= Len(t)
       /\ SubSeq(t, j + 1, j + Len(SECTIONS_LABEL)) = SECTIONS_LABEL

\* extract_sections_line
extract_sections_line(document_text) ==
    IF document_text.type # "str" THEN Str(<<>>)
    ELSE LET t == document_text.val
             found == {i \in LineStarts(t) : SectionsLineAt(t, i)}
         IN IF found = {} THEN Str(<<>>)
            ELSE LET first == CHOOSE i \in found : \A j \in found : i <= j
                     from == SkipSpace(t, SkipSpace(t, first) + Len(SECTIONS_LABEL))
                 IN Str(Strip(SubSeq(t, from + 1, LineEnd(t, from))))

\* the expected act tags read from the citation line only
expected_act_tags_of_line(context_row, line_tags) == Range(line_tags.act_tags)

\* context_row.get("act_tags") or tags.get("act_tags", [])
expected_act_tags(context_row, line_tags) ==
    LET stored == DictGet(context_row, "act_tags")
    IN IF Truthy(stored) THEN Range(stored.val) ELSE Range(line_tags.act_tags)

\* the expected section codes with the stored lists always added
expected_sections_merged(context_row, line_tags) ==
    Range(line_tags.all_sections)
        \cup Range(DictGetOr(context_row, "ipc_sections", ListVal(<<>>)).val)
        \cup Range(DictGetOr(context_row, "bns_sections", ListVal(<<>>)).val)

\* the expected section codes: the tagger's, else the stored lists
expected_sections(context_row, line_tags) ==
    IF line_tags.all_sections # <<>>
    THEN Range(line_tags.all_sections)
    ELSE Range(DictGetOr(context_row, "ipc_sections", ListVal(<<>>)).val)
            \cup Range(DictGetOr(context_row, "bns_sections", ListVal(<<>>)).val)

\* the citation line of a record: the stored one, else the one in its text
citation_line(context_row) ==
    Or(Or(DictGet(context_row, "sections_line"),
          extract_sections_line(DictGetOr(context_row, "text", Str(<<>>)))),
       Str(<<>>))

\* get_expected_from_context
get_expected_from_context(context_row) ==
    LET line == citation_line(context_row)
        line_tags == tag_sections_line(line, NoReference)
    IN [sections_line |-> line.val,
        act_tags |-> SortedTags(expected_act_tags(context_row, line_tags)),
        all_sections |-> SortedList(expected_sections(context_row, line_tags))]

Zero == IntVal(<<"0">>)
One == IntVal(<<"1">>)

\* int(b)
BoolInt(b) == IF b THEN One ELSE Zero

\* the section score that gives credit to a predicted subset
section_accuracy_subset(predicted_section_set, expected_section_set) ==
    IF expected_section_set = {} THEN None
    ELSE BoolInt(predicted_section_set \subseteq expected_section_set)

\* section_accuracy of evaluate_prediction
section_accuracy(predicted_section_set, expected_section_set) ==
    IF expected_section_set = {} THEN None
    ELSE BoolInt(predicted_section_set = expected_section_set)

\* act_tag_accuracy of evaluate_prediction
act_tag_accuracy(predicted_act_tag_set, expected_act_tag_set) ==
    IF expected_act_tag_set = {} THEN None
    ELSE BoolInt(predicted_act_tag_set = expected_act_tag_set)

\* the overall score that passes a record without ground truth
accuracy_pass_without_truth(section_score, act_tag_score) ==
    IF section_score # None THEN section_score
    ELSE IF act_tag_score # None THEN act_tag_score
    ELSE One

\* accuracy of evaluate_prediction
accuracy(section_score, act_tag_score) ==
    IF section_score # None THEN section_score
    ELSE IF act_tag_score # None THEN act_tag_score
    ELSE Zero

\* evaluate_prediction, from the tags of the predicted text and the expected
\* tags of the record on
evaluate_prediction(predicted, predicted_tags, expected) ==
    LET predicted_section_set == Range(predicted_tags.all_sections)
        expected_section_set == Range(expected.all_sections)
        predicted_act_tag_set == Range(predicted_tags.act_tags)
        expected_act_tag_set == Range(expected.act_tags)
        section_score == section_accuracy(predicted_section_set, expected_section_set)
        act_tag_score == act_tag_accuracy(predicted_act_tag_set, expected_act_tag_set)
    IN [accuracy |-> accuracy(section_score, act_tag_score),
        section_accuracy |-> section_score,
        act_tag_accuracy |-> act_tag_score,
        predicted |-> [text |-> predicted,
                       act_tags |-> SortedTags(predicted_act_tag_set),
                       all_sections |-> SortedList(predicted_section_set)],
        expected |-> expected]

(***************************************************************************)
(* The tagger as a state machine: a caller composes an argument, calls     *)
(* tag_sections_line, the loop walks the comma fragments one at a time,    *)
(* and the call returns.                                                   *)
(***************************************************************************)
VARIABLES
    pc,                      \* where the operation under way is
    sections_line,           \* the argument, a Python value
    nparts,                  \* the comma fragments the caller has written
    reference_ipc_sections,  \* the optional reference set
    act_tags,                \* the acts detected in the whole string
    all_sections,            \* the codes extracted from the whole string
    parts,                   \* the stripped, non-empty fragments
    part_idx,                \* the fragment the loop is at
    current_tags,            \* the running act context
    act_to_sections,         \* the codes assigned to each act
    tags,                    \* the value tag_sections_line returned
    predicted_text,          \* evaluate_prediction: the predicted text
    npredicted,              \* the comma fragments written to predicted_text
    expected_context,        \* evaluate_prediction: the retrieved record
    evaluation,              \* the value evaluate_prediction returned
    token,                   \* normalize_section_token: the argument
    normalized,              \* the value normalize_section_token returned
    renormalized,            \* the value it returned for that value
    cache_file,              \* load_reference_sections: the file at json_path
    source_file,             \* the file at pdf_path
    pdf_path,                \* the source path argument
    auto_build,              \* the auto_build argument
    pypdf_installed,         \* whether "from pypdf import PdfReader" succeeds
    loaded,                  \* the value returned or the exception raised
    source_reads,            \* how often the source file was opened
    cache_writes,            \* how often the cache file was opened for writing
    query,                   \* is_act_section_query: the argument
    query_answer,            \* the value is_act_section_query returned
    response,                \* extract_predicted_act_section_text: the argument
    predicted_act_section,   \* the value it returned
    metadata_rows,           \* validate_ipc_tags: the records given
    report,                  \* the report it returned
    df,                      \* find_duplicate_case_ids: the table given
    ids,                     \* the case id generated for each row
    duplicates,              \* the list it returned
    fir_row,                 \* build_document: the row given
    document,                \* the text it returned
    document_line            \* what extract_sections_line returned for it

evalVars == <<predicted_text, npredicted, expected_context, evaluation>>

normVars == <<token, normalized, renormalized>>

loadVars == <<cache_file, source_file, pdf_path, auto_build, pypdf_installed,
              loaded, source_reads, cache_writes>>

queryVars == <<query, query_answer>>

responseVars == <<response, predicted_act_section>>

validateVars == <<metadata_rows, report>>

dedupVars == <<df, ids, duplicates>>

documentVars == <<fir_row, document, document_line>>

harnessVars == <<validateVars, dedupVars, documentVars>>

otherVars == <<normVars, loadVars, queryVars, responseVars, harnessVars>>

vars == <<pc, sections_line, nparts, reference_ipc_sections, act_tags,
          all_sections, parts, part_idx, current_tags, act_to_sections, tags,
          evalVars, otherVars>>

\* the fragments a caller writes
PARTS == << <<"I", "P", "C", "-", "3", "7", "9">>,
            <<"A", "r", "m", "s", " ", "A", "c", "t", "-", "2", "5">>,
            <<"2", "7">>,
            <<"B", "N", "S">>,
            <<>>,
            <<"hi_bhA", "hi_ratIya", " ", "hi_daM", "hi_Da", " ", "hi_saM",
              "hi_hitA", "-", "4", "1", "1">>,
            <<"i", "p", "c", " ", "1", "8", "6", "0">>,
            <<"-", "3", "0", "(", "2", ")">> >>

\* the arguments a call can start from: the empty string and values that are
\* no string
ARGUMENTS == {Str(<<>>), None, IntVal(<<"0">>), IntVal(<<"4", "2">>),
              ListVal(<<>>), ListVal(<<"IPC-379">>)}

REFERENCES == {NoReference, Reference({}),
               Reference({<<"3", "7", "9">>, <<"3", "0", "2">>})}

NoTags == [EmptyTags EXCEPT !.status = "none"]

Unset == [type |-> "unset", val |-> <<>>]

\* no other operation is under way
NormIdle ==
    /\ token = Unset
    /\ normalized = Unset
    /\ renormalized = Unset

LoadIdle ==
    /\ cache_file = Absent
    /\ source_file = Absent
    /\ pdf_path = Str(<<>>)
    /\ auto_build = FALSE
    /\ pypdf_installed = FALSE
    /\ loaded = Unset
    /\ source_reads = 0
    /\ cache_writes = 0

QueryIdle ==
    /\ query = Unset
    /\ query_answer = Unset

ResponseIdle ==
    /\ response = Unset
    /\ predicted_act_section = Unset

ValidateIdle ==
    /\ metadata_rows = <<>>
    /\ report = Unset

DedupIdle ==
    /\ df = <<>>
    /\ ids = <<>>
    /\ duplicates = Unset

DocumentIdle ==
    /\ fir_row = Unset
    /\ document = Unset
    /\ document_line = Unset

HarnessIdle ==
    /\ ValidateIdle
    /\ DedupIdle
    /\ DocumentIdle

OtherIdle ==
    /\ NormIdle
    /\ LoadIdle
    /\ QueryIdle
    /\ ResponseIdle
    /\ HarnessIdle

\* nothing is being evaluated
EvalIdle ==
    /\ predicted_text = None
    /\ npredicted = 0
    /\ expected_context = <<>>
    /\ evaluation = <<>>

Init ==
    /\ pc = "input"
    /\ sections_line \in ARGUMENTS
    /\ nparts = 0
    /\ reference_ipc_sections \in REFERENCES
    /\ act_tags = {}
    /\ all_sections = <<>>
    /\ parts = <<>>
    /\ part_idx = 0
    /\ current_tags = {}
    /\ act_to_sections = <<>>
    /\ tags = NoTags
    /\ EvalIdle
    /\ OtherIdle

\* the caller writes one more comma fragment of the citation string
AddPart(f) ==
    /\ pc = "input"
    /\ sections_line.type = "str"
    /\ nparts < MaxParts
    /\ sections_line' = Str(IF nparts = 0 THEN f
                            ELSE sections_line.val \o <<",", " ">> \o f)
    /\ nparts' = nparts + 1
    /\ UNCHANGED <<pc, reference_ipc_sections, act_tags, all_sections, parts,
                   part_idx, current_tags, act_to_sections, tags, evalVars, otherVars>>

\* tag_sections_line up to the loop: the early return, or the failure on a
\* value that has no lower(), or the detection over the whole string
Call ==
    /\ pc = "input"
    /\ IF ~Truthy(sections_line) \/ sections_line.type # "str"
       THEN /\ tags' = tag_sections_line(sections_line, reference_ipc_sections)
            /\ pc' = "done"
            /\ UNCHANGED <<act_tags, all_sections, parts, part_idx,
                           current_tags, act_to_sections>>
       ELSE /\ act_tags' = match_act_tags(sections_line.val)
            /\ all_sections' = extract_section_codes(sections_line.val)
            /\ parts' = SplitParts(sections_line.val)
            /\ part_idx' = 1
            /\ current_tags' = WalkInit(act_tags').current_tags
            /\ act_to_sections' = WalkInit(act_tags').act_to_sections
            /\ pc' = "walk"
            /\ UNCHANGED tags
    /\ UNCHANGED <<sections_line, nparts, reference_ipc_sections, evalVars, otherVars>>

\* one pass of the loop over the fragments
WalkPart ==
    /\ pc = "walk"
    /\ part_idx <= Len(parts)
    /\ LET st == WalkStep([current_tags |-> current_tags,
                           act_to_sections |-> act_to_sections],
                          parts[part_idx], act_tags)
       IN /\ current_tags' = st.current_tags
          /\ act_to_sections' = st.act_to_sections
    /\ part_idx' = part_idx + 1
    /\ UNCHANGED <<pc, sections_line, nparts, reference_ipc_sections, act_tags,
                   all_sections, parts, tags, evalVars, otherVars>>

\* the rest of tag_sections_line: the global assignment, the short forms,
\* the reference validation, the returned dictionary
Return ==
    /\ pc = "walk"
    /\ part_idx > Len(parts)
    /\ act_to_sections' = assign_globally(act_to_sections, all_sections, act_tags)
    /\ tags' = tag_result(sections_line.val, act_tags, all_sections,
                          act_to_sections', reference_ipc_sections)
    /\ pc' = "done"
    /\ UNCHANGED <<sections_line, nparts, reference_ipc_sections, act_tags,
                   all_sections, parts, part_idx, current_tags, evalVars, otherVars>>

Next ==
    \/ \E i \in DOMAIN PARTS : AddPart(PARTS[i])
    \/ Call
    \/ WalkPart
    \/ Return

Spec == Init /\ [][Next]_vars

(***************************************************************************)
(* Properties of the tagger, stated on the fragments without the loop.     *)
(***************************************************************************)
\* the call went through the fragment loop and has returned
Returned == pc = "done" /\ tags.status = "ok" /\ parts # <<>>

\* the acts each fragment names, and the codes each fragment yields
FragmentActs == [i \in DOMAIN parts |-> match_act_tags(parts[i])]
FragmentCodes == [i \in DOMAIN parts |-> Range(extract_section_codes(parts[i]))]

\* the fragments before fragment k that name an act
NamingBefore(own, k) == {j \in 1..(k - 1) : own[j] # {}}

Latest(S) == CHOOSE j \in S : \A m \in S : m <= j

\* the acts named by the nearest act-naming fragment before fragment k
ContextBefore(own, k) ==
    IF NamingBefore(own, k) = {} THEN {} ELSE own[Latest(NamingBefore(own, k))]

\* the acts the codes of fragment i belong to
TargetOf(own, i) ==
    IF own[i] # {} THEN own[i]
    ELSE IF ContextBefore(own, i) # {} THEN ContextBefore(own, i)
    ELSE act_tags

\* the codes the fragments before fragment k give act a
AssignedBefore(own, codes, a, k) ==
    UNION {codes[i] : i \in {j \in 1..(k - 1) : a \in TargetOf(own, j)}}

\* C5: tag_sections_line never raises: for an empty input and for every
\* non-string input it returns a CitationTagSet with every field empty.
C5_EmptyOrNonStringGivesEmptyTags ==
    (pc = "done" /\ (sections_line.type # "str" \/ sections_line.val = <<>>))
        => tags = EmptyTags

\* C6: the codes of each fragment are added to the fragment's own acts if it
\* names any, else to the running context if it is not empty, else to every
\* globally detected act; per act the codes are the union over the fragments
\* walked so far, and nothing assigned earlier is lost.
C6_AssignmentTarget ==
    (pc = "walk" \/ Returned) =>
        \A own \in {FragmentActs} : \A codes \in {FragmentCodes} :
           LET walked == IF pc = "walk" THEN part_idx ELSE Len(parts) + 1
           IN \A a \in ACT_TAGS :
                 Get(act_to_sections, a) = AssignedBefore(own, codes, a, walked)

\* C6 witness: one act has received codes from a fragment that names no act
\* and has no act before it (the global fallback), from a fragment that names
\* it, and from a later fragment that names no act (the running context).
C6_Witness ==
    /\ Returned
    /\ Len(parts) = 3
    /\ \E own \in {FragmentActs} : \E codes \in {FragmentCodes} :
          /\ own[1] = {} /\ codes[1] # {}
          /\ own[2] = {"IPC_1860"} /\ codes[2] # {}
          /\ own[3] = {} /\ codes[3] # {}
          /\ codes[1] # codes[2] /\ codes[2] # codes[3] /\ codes[1] # codes[3]
          /\ act_to_sections["IPC_1860"] = codes[1] \cup codes[2] \cup codes[3]

\* C7: the running context starts empty and after each fragment is the act
\* set of the nearest act-naming fragment walked so far (replaced, never
\* merged, and also set by a fragment without a code); so the codes of a
\* fragment that names no act go to the acts of the nearest act-naming
\* fragment before it, and through that fragment to no other act.
C7_ContextCarry ==
    (pc = "walk" \/ Returned) =>
        \A own \in {FragmentActs} : \A codes \in {FragmentCodes} :
           /\ current_tags = ContextBefore(own, IF pc = "walk" THEN part_idx
                                                 ELSE Len(parts) + 1)
           /\ Returned =>
                \A i \in DOMAIN parts :
                   (own[i] = {} /\ codes[i] # {} /\ NamingBefore(own, i) # {}) =>
                      \A a \in ACT_TAGS :
                         IF a \in ContextBefore(own, i)
                         THEN codes[i] \subseteq Get(act_to_sections, a)
                         ELSE \A c \in codes[i] :
                                 c \in Get(act_to_sections, a) =>
                                    \E m \in DOMAIN parts \ {i} : c \in codes[m]

\* C7 witness: after a fragment of one act, a fragment names another act
\* without a code, and the code of the next, unlabelled fragment went to that
\* other act only.
C7_Witness ==
    /\ Returned
    /\ Len(parts) = 3
    /\ \E own \in {FragmentActs} : \E codes \in {FragmentCodes} :
          /\ own[1] = {"IPC_1860"} /\ codes[1] # {}
          /\ own[2] = {"BNS_2023"} /\ codes[2] = {}
          /\ own[3] = {} /\ codes[3] # {}
          /\ codes[3] \cap codes[1] = {}
          /\ tags.bns_sections = SortedList(codes[3])
          /\ tags.ipc_sections_raw = SortedList(codes[1])

\* the digits of a code, its parenthesised sub-clause included
DigitsOf(code) == SelectSeq(code, IsDigit)

\* C10: with a non-empty reference set the validated ipc_sections are exactly
\* the raw IPC codes whose normalized form (the code without its parentheses,
\* of at most four digits) is in the reference set; with an empty or missing
\* reference set ipc_sections is ipc_sections_raw; it is always a subset.
C10_ReferenceValidation ==
    Returned =>
       LET reference == IF reference_ipc_sections.type = "set"
                        THEN reference_ipc_sections.val ELSE {}
           raw == Range(tags.ipc_sections_raw)
       IN /\ reference # {} =>
               tags.ipc_sections =
                  SortedList({c \in raw : Len(DigitsOf(c)) <= 4 /\ DigitsOf(c) \in reference})
          /\ reference = {} => tags.ipc_sections = tags.ipc_sections_raw
          /\ Range(tags.ipc_sections) \subseteq raw

\* C10 witness: under a non-empty reference set a code with a sub-clause
\* survived through its normalized form and another raw code was dropped.
C10_Witness ==
    /\ Returned
    /\ reference_ipc_sections.type = "set" /\ reference_ipc_sections.val # {}
    /\ <<"3", "0", "(", "2", ")">> \in Range(tags.ipc_sections)
    /\ \E c \in Range(tags.ipc_sections_raw) : c \notin Range(tags.ipc_sections)

\* C10 witness of the pass-through: no reference set, and raw codes returned
C10_WitnessPassThrough ==
    /\ Returned
    /\ reference_ipc_sections = NoReference
    /\ tags.ipc_sections_raw # <<>>

(***************************************************************************)
(* _extract_section_codes on its own: a text is written chunk by chunk and *)
(* the extractor is applied to it.                                         *)
(***************************************************************************)
MaxChunks == 4

\* the chunks a text is written from: numbers around both ends of the year
\* range, a year inside it, a section number, a sub-clause, a hyphen, a space
CHUNKS ==
    { <<"1","7","9","9">>, <<"1","8","0","0">>, <<"2","0","9","9">>,
      <<"2","1","0","0">>, <<"1","8","6","0">>, <<"3","0","2">>,
      <<"(","2",")">>, <<"-">>, <<" ">> }

InitCodes ==
    /\ pc = "text"
    /\ sections_line = Str(<<>>)
    /\ nparts = 0
    /\ reference_ipc_sections = NoReference
    /\ act_tags = {}
    /\ all_sections = <<>>
    /\ parts = <<>>
    /\ part_idx = 0
    /\ current_tags = {}
    /\ act_to_sections = <<>>
    /\ tags = NoTags
    /\ EvalIdle
    /\ OtherIdle

\* one more chunk of the text
AddChunk(c) ==
    /\ pc = "text"
    /\ nparts < MaxChunks
    /\ sections_line' = Str(sections_line.val \o c)
    /\ nparts' = nparts + 1
    /\ UNCHANGED <<pc, reference_ipc_sections, act_tags, all_sections, parts,
                   part_idx, current_tags, act_to_sections, tags, evalVars, otherVars>>

\* all_sections = _extract_section_codes(text)
ExtractCodes ==
    /\ pc = "text"
    /\ all_sections' = extract_section_codes(sections_line.val)
    /\ pc' = "extracted"
    /\ UNCHANGED <<sections_line, nparts, reference_ipc_sections, act_tags, parts,
                   part_idx, current_tags, act_to_sections, tags, evalVars, otherVars>>

NextCodes ==
    \/ \E c \in CHUNKS : AddChunk(c)
    \/ ExtractCodes

SpecCodes == InitCodes /\ [][NextCodes]_vars

(***************************************************************************)
(* Properties of the extractor                                             *)
(***************************************************************************)
\* the offsets where the digits of a hyphen-attached code start: a hyphen,
\* any whitespace, then a digit
HyphenStarts(t) ==
    {j \in 1..(Len(t) - 1) :
        /\ IsDigit(t[j + 1])
        /\ \E i \in 1..j : t[i] = "-" /\ \A k \in (i + 1)..j : IsSpace(t[k])}

\* the hyphen-attached codes of the text
HyphenAttached(t) == {SubSeq(t, j + 1, CodeEnd(t, j)) : j \in HyphenStarts(t)}

\* the tokens of the bare-digit scan
BareTokens(t) == Range(BareCodes(t, 0))

\* the integer value of a token, its parenthesised sub-clause left out
ValueOf(bare) ==
    IntOf(SelectSeq(SubSeq(bare, 1,
                           IF \E k \in DOMAIN bare : bare[k] = "("
                           THEN (CHOOSE k \in DOMAIN bare : bare[k] = "(") - 1
                           ELSE Len(bare)),
                    IsDigit))

\* the list is in ascending string order without duplicates
Ascending(list) == \A k \in 1..(Len(list) - 1) : StrLess(list[k], list[k + 1])

\* C8: when the text holds at least one hyphen-attached code the result is
\* exactly the de-duplicated, sorted set of the hyphen-attached codes and every
\* bare number elsewhere in the text is ignored; the bare-digit scan is used
\* only when the text holds no hyphen-attached code
C8_HyphenPreference ==
    pc = "extracted" =>
        \A text \in {sections_line.val} : \A attached \in {HyphenAttached(text)} :
           /\ Ascending(all_sections)
           /\ attached # {} => Range(all_sections) = attached
           /\ attached = {} => Range(all_sections) \subseteq BareTokens(text)
           /\ (attached = {} /\ \E bare \in BareTokens(text) : ValueOf(bare) < 1800)
                 => all_sections # <<>>

\* a text with a hyphen-attached code and a bare section number elsewhere: the
\* bare number is left out
C8_Witness ==
    /\ pc = "extracted"
    /\ HyphenAttached(sections_line.val) # {}
    /\ \E bare \in BareTokens(sections_line.val) :
          /\ ValueOf(bare) < 1800
          /\ bare \notin HyphenAttached(sections_line.val)
          /\ bare \notin Range(all_sections)

\* C9: in the bare-digit fallback scan a token is dropped exactly when its
\* integer value, taken before any parenthesised sub-clause, lies in
\* [1800, 2099]; the exclusion is not applied to hyphen-attached codes
C9_YearExclusion ==
    pc = "extracted" =>
        \A text \in {sections_line.val} : \A attached \in {HyphenAttached(text)} :
           /\ attached = {} =>
                 \A bare \in BareTokens(text) :
                    bare \in Range(all_sections)
                       <=> ~(1800 <= ValueOf(bare) /\ ValueOf(bare) <= 2099)
           /\ attached # {} => \A code \in attached : code \in Range(all_sections)

\* the four numbers at the ends of the range in one text without a hyphen:
\* 1800 and 2099 are dropped, 1799 and 2100 are kept
C9_Witness ==
    /\ pc = "extracted"
    /\ HyphenAttached(sections_line.val) = {}
    /\ {<<"1","7","9","9">>, <<"1","8","0","0">>, <<"2","0","9","9">>, <<"2","1","0","0">>}
          \subseteq BareTokens(sections_line.val)
    /\ all_sections = << <<"1","7","9","9">>, <<"2","1","0","0">> >>

\* a year attached to a hyphen is kept
C9_WitnessHyphenYear ==
    /\ pc = "extracted"
    /\ <<"1","8","6","0">> \in HyphenAttached(sections_line.val)
    /\ <<"1","8","6","0">> \in Range(all_sections)

(***************************************************************************)
(* evaluate_prediction: a predicted text and the citation line of a record *)
(* are written fragment by fragment, the record gets its other fields, and *)
(* the prediction is evaluated against it.                                 *)
(***************************************************************************)
MaxEvalParts == 2

\* the fragments of a predicted text
PREDICTED_PARTS ==
    { <<"I", "P", "C", "-", "3", "7", "9">>,
      <<"I", "P", "C", "-", "4", "1", "1">>,
      <<"B", "N", "S", "-", "3", "0", "2">> }

\* the fragments of a record's citation line
EXPECTED_PARTS ==
    { <<"hi_bhA", "hi_ratIya", " ", "hi_daM", "hi_Da", " ", "hi_saM", "hi_hitA",
        "-", "3", "7", "9">>,
      <<"hi_bhA", "hi_ratIya", " ", "hi_daM", "hi_Da", " ", "hi_saM", "hi_hitA",
        "-", "4", "1", "1">>,
      <<"B", "N", "S", "-", "3", "0", "2">> }

\* the raw text a record can hold: none, or a document with a Sections: line
RECORD_TEXTS ==
    { Absent,
      Str(<<"F", "I", "R", "\n">> \o SECTIONS_LABEL
          \o <<" ", "B", "N", "S", "-", "3", "0", "2", " ", "\n", "x">>) }

\* the act tags a record can store
RECORD_ACT_TAGS == {Absent, ListVal(<<"IPC_1860">>), ListVal(<<"BNS_2023">>)}

\* the section lists a record can store, as <<ipc_sections, bns_sections>>
RECORD_SECTIONS ==
    { <<Absent, Absent>>,
      <<ListVal(<< <<"3", "7", "9">> >>), ListVal(<< <<"3", "0", "2">> >>)>> }

\* s with one more comma-separated fragment
Appended(s, f) == IF s = <<>> THEN f ELSE s \o <<",", " ">> \o f

InitEval ==
    /\ pc = "write"
    /\ sections_line = Str(<<>>)
    /\ nparts = 0
    /\ reference_ipc_sections = NoReference
    /\ act_tags = {}
    /\ all_sections = <<>>
    /\ parts = <<>>
    /\ part_idx = 0
    /\ current_tags = {}
    /\ act_to_sections = <<>>
    /\ tags = NoTags
    /\ predicted_text = Str(<<>>)
    /\ npredicted = 0
    /\ expected_context = <<>>
    /\ evaluation = <<>>
    /\ OtherIdle

\* one more fragment of the predicted text
AddPredicted(f) ==
    /\ pc = "write"
    /\ npredicted < MaxEvalParts
    /\ predicted_text' = Str(Appended(predicted_text.val, f))
    /\ npredicted' = npredicted + 1
    /\ UNCHANGED <<pc, sections_line, nparts, reference_ipc_sections, act_tags,
                   all_sections, parts, part_idx, current_tags, act_to_sections,
                   tags, expected_context, evaluation, otherVars>>

\* one more fragment of the record's citation line
AddExpected(f) ==
    /\ pc = "write"
    /\ nparts < MaxEvalParts
    /\ sections_line' = Str(Appended(sections_line.val, f))
    /\ nparts' = nparts + 1
    /\ UNCHANGED <<pc, reference_ipc_sections, act_tags, all_sections, parts,
                   part_idx, current_tags, act_to_sections, tags, evalVars, otherVars>>

\* predicted_tags = tag_sections_line(predicted_text or "")
TagPredicted ==
    /\ pc = "write"
    /\ tags' = tag_sections_line(Or(predicted_text, Str(<<>>)), NoReference)
    /\ pc' = "tagged"
    /\ UNCHANGED <<sections_line, nparts, reference_ipc_sections, act_tags,
                   all_sections, parts, part_idx, current_tags, act_to_sections,
                   evalVars, otherVars>>

\* the rest of evaluate_prediction, against a record that holds the citation
\* line written and any of the other fields
Evaluate ==
    /\ pc = "tagged"
    /\ \E line \in {sections_line} \cup (IF sections_line.val = <<>> THEN {Absent} ELSE {}),
          text \in RECORD_TEXTS, stored_tags \in RECORD_ACT_TAGS,
          stored \in RECORD_SECTIONS :
          expected_context' = [sections_line |-> line, text |-> text,
                               act_tags |-> stored_tags,
                               ipc_sections |-> stored[1],
                               bns_sections |-> stored[2]]
    /\ evaluation' = evaluate_prediction(predicted_text, tags,
                                         get_expected_from_context(expected_context'))
    /\ pc' = "evaluated"
    /\ UNCHANGED <<sections_line, nparts, reference_ipc_sections, act_tags,
                   all_sections, parts, part_idx, current_tags, act_to_sections,
                   tags, predicted_text, npredicted, otherVars>>

NextEval ==
    \/ \E f \in PREDICTED_PARTS : AddPredicted(f)
    \/ \E f \in EXPECTED_PARTS : AddExpected(f)
    \/ TagPredicted
    \/ Evaluate

SpecEval == InitEval /\ [][NextEval]_vars

(***************************************************************************)
(* Properties of evaluate_prediction                                       *)
(***************************************************************************)
Evaluated == pc = "evaluated"

\* the section codes and the act tags the tagger found in the predicted text
PredictedSections == Range(tags.all_sections)
PredictedActTags == Range(tags.act_tags)

\* the expected sets get_expected_from_context returned for the record
ExpectedSections == Range(evaluation.expected.all_sections)

\* the act tags of the record's citation line
CitationTags ==
    Range(tag_sections_line(Str(evaluation.expected.sections_line), NoReference).act_tags)

\* the act tags stored on the record, if it stores any
StoredActTags ==
    IF expected_context.act_tags.type = "list" THEN Range(expected_context.act_tags.val) ELSE {}

\* C1: section_accuracy is null exactly when the expected section-code set is
\* empty; otherwise it is 1 if and only if the predicted section-code set
\* equals the expected one exactly, and 0 for any subset, superset or overlap
C1_SectionAccuracy ==
    Evaluated =>
        /\ evaluation.section_accuracy = None <=> ExpectedSections = {}
        /\ ExpectedSections # {} =>
              evaluation.section_accuracy =
                 (IF PredictedSections = ExpectedSections THEN One ELSE Zero)

\* predicted {379} against expected {379, 411} scores 0
C1_Witness ==
    /\ Evaluated
    /\ PredictedSections = {<<"3", "7", "9">>}
    /\ ExpectedSections = {<<"3", "7", "9">>, <<"4", "1", "1">>}
    /\ evaluation.section_accuracy = Zero

\* C2: accuracy equals section_accuracy when that is non-null, else
\* act_tag_accuracy when that is non-null, else 0; a record with neither
\* expected sections nor expected act tags scores 0 for every predicted text;
\* accuracy is always 0 or 1
C2_OverallAccuracy ==
    Evaluated =>
        /\ evaluation.section_accuracy # None =>
              evaluation.accuracy = evaluation.section_accuracy
        /\ (evaluation.section_accuracy = None /\ evaluation.act_tag_accuracy # None) =>
              evaluation.accuracy = evaluation.act_tag_accuracy
        /\ (evaluation.section_accuracy = None /\ evaluation.act_tag_accuracy = None) =>
              evaluation.accuracy = Zero
        /\ (ExpectedSections = {} /\ evaluation.expected.act_tags = <<>>) =>
              evaluation.accuracy = Zero
        /\ evaluation.accuracy \in {Zero, One}

\* a predicted text with act tags and codes, evaluated against a record
\* without expected sections or act tags, scores 0
C2_Witness ==
    /\ Evaluated
    /\ PredictedSections # {} /\ PredictedActTags # {}
    /\ ExpectedSections = {} /\ evaluation.expected.act_tags = <<>>
    /\ evaluation.accuracy = Zero

\* the accuracy falls back on act_tag_accuracy: no expected sections, the
\* expected act tags matched
C2_WitnessActTagFallback ==
    /\ Evaluated
    /\ evaluation.section_accuracy = None
    /\ evaluation.act_tag_accuracy = One
    /\ evaluation.accuracy = One

\* C3 as stated: act_tag_accuracy is null exactly when the expected act-tag set
\* is empty, else 1 if and only if the act tags detected in the predicted text
\* equal it, the expected act-tag set being the tags of the record's citation
\* line
C3_ActTagAccuracyOfCitationLine ==
    Evaluated =>
        \A citation \in {CitationTags} :
           /\ evaluation.act_tag_accuracy = None <=> citation = {}
           /\ citation # {} =>
                 evaluation.act_tag_accuracy =
                    (IF PredictedActTags = citation THEN One ELSE Zero)

\* C3 amended: the expected act-tag set is the act tags stored on the record
\* when it stores any, else the tags of the record's citation line;
\* act_tag_accuracy is null exactly when that set is empty, else 1 if and only
\* if the act tags detected in the predicted text equal it
C3_ActTagAccuracy ==
    Evaluated =>
        \A wanted \in {IF StoredActTags # {} THEN StoredActTags ELSE CitationTags} :
           /\ Range(evaluation.expected.act_tags) = wanted
           /\ evaluation.act_tag_accuracy = None <=> wanted = {}
           /\ wanted # {} =>
                 evaluation.act_tag_accuracy =
                    (IF PredictedActTags = wanted THEN One ELSE Zero)

\* the record stores an act tag its citation line does not name; the predicted
\* text names the act of the citation line and scores 0 on act tags
C3_Witness ==
    /\ Evaluated
    /\ StoredActTags = {"BNS_2023"}
    /\ CitationTags = {"IPC_1860"}
    /\ PredictedActTags = {"IPC_1860"}
    /\ evaluation.act_tag_accuracy = Zero

\* the spellings of an act in the fragments of the texts
ALIASES ==
    [A \in {"IPC_1860", "BNS_2023", "ARMS_ACT_1959"} |->
        CASE A = "IPC_1860" ->
                { <<"I", "P", "C">>,
                  <<"hi_bhA", "hi_ratIya", " ", "hi_daM", "hi_Da", " ", "hi_saM", "hi_hitA">> }
          [] A = "BNS_2023" -> { <<"B", "N", "S">> }
          [] A = "ARMS_ACT_1959" -> { <<"A", "r", "m", "s", " ", "A", "c", "t">> }]

\* the section codes of the fragments
CODES == { <<"3", "7", "9">>, <<"4", "1", "1">>, <<"3", "0", "2">>, <<"2", "5">> }

\* every fragment is <alias of A>-<code>, and the codes are C
Names(fragments, A, C) ==
    /\ \A i \in DOMAIN fragments :
          \E alias \in ALIASES[A], code \in C : fragments[i] = alias \o <<"-">> \o code
    /\ \A code \in C :
          \E i \in DOMAIN fragments, alias \in ALIASES[A] :
             fragments[i] = alias \o <<"-">> \o code

\* the comma fragments of the predicted text and of the record's citation line
PredictedFragments == SplitParts(predicted_text.val)
CitationFragments == SplitParts(evaluation.expected.sections_line)

\* the three scores are 1
AllOne ==
    /\ evaluation.accuracy = One
    /\ evaluation.section_accuracy = One
    /\ evaluation.act_tag_accuracy = One

\* C4 as stated: a predicted text that names act A by one alias with the
\* non-empty code set C, evaluated against a record whose citation line names
\* A by another alias with the same code set, scores 1 on accuracy,
\* section_accuracy and act_tag_accuracy
C4_AliasIndependenceOfAnyRecord ==
    Evaluated =>
        \A said \in {PredictedFragments} : \A cited \in {CitationFragments} :
           \A A \in DOMAIN ALIASES : \A C \in SUBSET CODES \ {{}} :
              (Names(said, A, C) /\ Names(cited, A, C)) => AllOne

\* C4 amended: the same, for a record that stores no act tags of its own or
\* stores exactly the tag of A
C4_AliasIndependence ==
    Evaluated =>
        \A said \in {PredictedFragments} : \A cited \in {CitationFragments} :
           \A A \in DOMAIN ALIASES : \A C \in SUBSET CODES \ {{}} :
              (Names(said, A, C) /\ Names(cited, A, C) /\ StoredActTags \in {{}, {A}})
                 => AllOne

\* 'IPC-379, IPC-411' against a citation line that spells the act out in Hindi
\* with the same two codes
C4_Witness ==
    /\ Evaluated
    /\ predicted_text.val = <<"I", "P", "C", "-", "3", "7", "9", ",", " ",
                              "I", "P", "C", "-", "4", "1", "1">>
    /\ evaluation.expected.sections_line =
          <<"hi_bhA", "hi_ratIya", " ", "hi_daM", "hi_Da", " ", "hi_saM", "hi_hitA",
            "-", "3", "7", "9", ",", " ",
            "hi_bhA", "hi_ratIya", " ", "hi_daM", "hi_Da", " ", "hi_saM", "hi_hitA",
            "-", "4", "1", "1">>
    /\ StoredActTags = {}
    /\ AllOne

(***************************************************************************)
(* Properties of the returned tag set                                      *)
(***************************************************************************)
\* C11: every code the fragment walk assigns to an act is also in
\* all_sections: ipc_sections_raw and bns_sections are subsets of all_sections
C11_AssignedCodesInAllSections ==
    Returned =>
        /\ Range(tags.ipc_sections_raw) \subseteq Range(tags.all_sections)
        /\ Range(tags.bns_sections) \subseteq Range(tags.all_sections)
        /\ \A a \in DOMAIN act_to_sections :
              act_to_sections[a] \subseteq Range(tags.all_sections)

\* C12: when every comma fragment of the citation string is <alias of A>-<code>
\* for one act A, tagging gives act_tags = {A}, the section set of A is the
\* set of all codes in the string, and every other act's set is empty
C12_SingleActCitation ==
    Returned =>
        \A A \in DOMAIN ALIASES : \A C \in SUBSET CODES \ {{}} :
           Names(parts, A, C) =>
              /\ tags.act_tags = <<A>>
              /\ Range(tags.all_sections) = C
              /\ Get(act_to_sections, A) = C
              /\ \A B \in DOMAIN act_to_sections \ {A} : act_to_sections[B] = {}
              /\ Range(tags.ipc_sections_raw) = (IF A = "IPC_1860" THEN C ELSE {})
              /\ Range(tags.bns_sections) = (IF A = "BNS_2023" THEN C ELSE {})

\* the penal code named in English with 379 and in Hindi with 411
C12_Witness ==
    /\ Returned
    /\ Len(parts) = 2
    /\ Names(parts, "IPC_1860", {<<"3", "7", "9">>, <<"4", "1", "1">>})
    /\ parts[1] # parts[2]
    /\ tags.act_tags = <<"IPC_1860">>
    /\ tags.ipc_sections_raw = << <<"3", "7", "9">>, <<"4", "1", "1">> >>
    /\ tags.bns_sections = <<>>

(***************************************************************************)
(* normalize_section_token on its own: a token is written chunk by chunk,  *)
(* normalized, and the result normalized again.                            *)
(***************************************************************************)
MaxTokenChunks == 4

\* the values a token starts from: the empty string, None, a number
TOKEN_ARGUMENTS == {Str(<<>>), None, IntVal(<<"3", "7", "9">>)}

\* the chunks a token is written from
TOKEN_CHUNKS ==
    { <<"3", "7", "9">>, <<"3", "0">>, <<"2">>, <<"a">>,
      <<" ">>, <<"(">>, <<")">>, <<"\n">> }

InitNorm ==
    /\ pc = "token"
    /\ sections_line = Str(<<>>)
    /\ nparts = 0
    /\ reference_ipc_sections = NoReference
    /\ act_tags = {}
    /\ all_sections = <<>>
    /\ parts = <<>>
    /\ part_idx = 0
    /\ current_tags = {}
    /\ act_to_sections = <<>>
    /\ tags = NoTags
    /\ EvalIdle
    /\ LoadIdle
    /\ QueryIdle
    /\ ResponseIdle
    /\ HarnessIdle
    /\ token \in TOKEN_ARGUMENTS
    /\ normalized = Unset
    /\ renormalized = Unset

\* one more chunk of the token
AddTokenChunk(c) ==
    /\ pc = "token"
    /\ token.type = "str"
    /\ nparts < MaxTokenChunks
    /\ token' = Str(token.val \o c)
    /\ nparts' = nparts + 1
    /\ UNCHANGED <<harnessVars, pc, sections_line, reference_ipc_sections, act_tags, all_sections,
                   parts, part_idx, current_tags, act_to_sections, tags, evalVars,
                   loadVars, queryVars, responseVars, normalized, renormalized>>

\* normalized = normalize_section_token(token)
Normalize ==
    /\ pc = "token"
    /\ normalized' = Str(normalize_section_token(token))
    /\ pc' = "normalized"
    /\ UNCHANGED <<harnessVars, sections_line, nparts, reference_ipc_sections, act_tags,
                   all_sections, parts, part_idx, current_tags, act_to_sections,
                   tags, evalVars, loadVars, queryVars, responseVars,
                   token, renormalized>>

\* renormalized = normalize_section_token(normalized)
Renormalize ==
    /\ pc = "normalized"
    /\ renormalized' = Str(normalize_section_token(normalized))
    /\ pc' = "renormalized"
    /\ UNCHANGED <<harnessVars, sections_line, nparts, reference_ipc_sections, act_tags,
                   all_sections, parts, part_idx, current_tags, act_to_sections,
                   tags, evalVars, loadVars, queryVars, responseVars,
                   token, normalized>>

NextNorm ==
    \/ \E c \in TOKEN_CHUNKS : AddTokenChunk(c)
    \/ Normalize
    \/ Renormalize

SpecNorm == InitNorm /\ [][NextNorm]_vars

(***************************************************************************)
(* Properties of normalize_section_token                                   *)
(***************************************************************************)
\* C13: normalize_section_token returns a string for every input and is
\* idempotent: normalizing its result gives the result again
C13_NormalizeIdempotent ==
    /\ pc \in {"normalized", "renormalized"} => normalized.type = "str"
    /\ pc = "renormalized" => renormalized = normalized

\* the characters between the whitespace and parentheses around the string
Core(s) ==
    LET inside == {i \in DOMAIN s : ~IsSpace(s[i]) /\ s[i] \notin {"(", ")"}}
    IN IF inside = {} THEN <<>>
       ELSE SubSeq(s, CHOOSE i \in inside : \A j \in inside : i <= j,
                      CHOOSE i \in inside : \A j \in inside : j <= i)

\* 1-4 digits optionally followed by one letter
SectionShape(s) ==
    \E d \in 1..4 :
        /\ d <= Len(s) /\ Len(s) <= d + 1
        /\ \A j \in 1..d : IsDigit(s[j])
        /\ Len(s) = d + 1 => IsLatin(s[d + 1])

\* C14: a token that, once surrounding whitespace and surrounding parentheses
\* are stripped, is not 1-4 digits optionally followed by one letter normalizes
\* to the empty string, and a non-empty result is the upper-cased token itself
C14_RejectsOtherShapes ==
    (pc = "normalized" /\ token.type = "str") =>
        \A core \in {Core(token.val)} :
           /\ ~SectionShape(core) => normalized.val = <<>>
           /\ normalized.val # <<>> => normalized.val = [i \in DOMAIN core |-> Upper(core[i])]

(***************************************************************************)
(* The reference store (app/ipc_reference.py).  A file is Absent or holds  *)
(* what was written to it; the cache holds the "sections" list of its JSON *)
(* payload, the source holds the text lines pypdf extracts from its pages. *)
(***************************************************************************)
RECURSIVE SplitWords(_)
\* s.split(): the runs of characters that are no whitespace
SplitWords(s) ==
    LET t == Strip(s)
    IN IF t = <<>> THEN <<>>
       ELSE LET n == CHOOSE n \in 1..Len(t) :
                        /\ \A j \in 1..n : ~IsSpace(t[j])
                        /\ n = Len(t) \/ IsSpace(t[n + 1])
            IN <<SubSeq(t, 1, n)>> \o SplitWords(SubSeq(t, n + 1, Len(t)))

RECURSIVE Join(_, _)
\* sep.join(items)
Join(sep, items) ==
    IF items = <<>> THEN <<>>
    ELSE IF Len(items) = 1 THEN items[1]
    ELSE items[1] \o sep \o Join(sep, Tail(items))

\* (?:धारा|Section) under re.IGNORECASE
SECTION_WORDS == { <<"hi_dhArA">>, <<"s", "e", "c", "t", "i", "o", "n">> }

\* the offset where (?:धारा|Section) ends when it starts at offset i, else -1
SectionWordEnd(t, i) ==
    LET ends == {i + Len(w) : w \in {w \in SECTION_WORDS :
                     /\ i + Len(w) <= Len(t)
                     /\ FoldStr(SubSeq(t, i + 1, i + Len(w))) = w}}
    IN IF ends = {} THEN -1 ELSE CHOOSE e \in ends : TRUE

\* what ([0-9]{1,4}[A-Za-z]?) captures at offset i, <<>> when no digit is there
SectionTokenAt(t, i) ==
    LET e == i + DigitRun(t, i, 4)
    IN IF e = i THEN <<>>
       ELSE IF e < Len(t) /\ IsLatin(t[e + 1]) THEN SubSeq(t, i + 1, e + 1)
       ELSE SubSeq(t, i + 1, e)

\* group 1 of the line-anchored re.match on a whitespace-collapsed line
StrictSection(line) ==
    IF SectionWordEnd(line, 0) < 0 THEN <<>>
    ELSE SectionTokenAt(line, SkipSpace(line, SectionWordEnd(line, 0)))

RECURSIVE LooseTokens(_, _)
\* re.findall of the loose pattern in the full text, from offset i on
LooseTokens(t, i) ==
    IF i >= Len(t) THEN {}
    ELSE LET e == SectionWordEnd(t, i)
             j == IF e < 0 THEN 0 ELSE SkipSpace(t, e)
             found == IF e < 0 THEN <<>> ELSE SectionTokenAt(t, j)
         IN IF found = <<>> THEN LooseTokens(t, i + 1)
            ELSE {found} \cup LooseTokens(t, j + Len(found))

\* what a call returns or raises
Returns(kind, v) == [type |-> kind, val |-> v]

Raises(exception) == [type |-> "raised", val |-> <<exception>>]

\* extract_reference_from_pdf: the keys of section_title_map, or the exception
extract_reference_from_pdf(installed, file) ==
    IF ~installed THEN Raises("RuntimeError")
    ELSE IF file.type = "absent" THEN Raises("FileNotFoundError")
    ELSE IF file.type # "pdf" THEN Raises("PdfReadError")
    ELSE CHOOSE result \in
            { Returns("set", IF strict # {} THEN strict ELSE loose) :
                 strict \in {{normalize_section_token(Str(StrictSection(line))) :
                                line \in {Join(<<" ">>, SplitWords(file.val[i])) :
                                             i \in DOMAIN file.val}} \ {<<>>}},
                 loose \in {{normalize_section_token(Str(found)) :
                               found \in UNION {LooseTokens(full_text, 0) :
                                                  full_text \in {Join(<<"\n">>, file.val)}}}
                            \ {<<>>}} } : TRUE

\* whether PdfReader(pdf_path) gets to open the file
OpensSource(installed, file) == installed /\ file.type # "absent"

\* the JSON document json.dump writes: its "sections" list
CachePayload(sections) ==
    Returns("json", [i \in DOMAIN SortedList(sections) |-> Str(SortedList(sections)[i])])

\* build_reference_json written with the cache opened before the extraction
build_reference_json_write_first(installed, file, cache) ==
    LET extracted == extract_reference_from_pdf(installed, file)
    IN [returned |-> IF extracted.type = "raised" THEN extracted
                     ELSE CachePayload(extracted.val),
        cache |-> IF extracted.type = "raised" THEN Returns("corrupt", <<>>)
                  ELSE CachePayload(extracted.val),
        reads |-> IF OpensSource(installed, file) THEN 1 ELSE 0,
        writes |-> 1]

\* build_reference_json: the payload returned or the exception, the cache file
\* afterwards, and how often the source was opened and the cache written
build_reference_json(installed, file, cache) ==
    LET extracted == extract_reference_from_pdf(installed, file)
    IN [returned |-> IF extracted.type = "raised" THEN extracted
                     ELSE CachePayload(extracted.val),
        cache |-> IF extracted.type = "raised" THEN cache
                  ELSE CachePayload(extracted.val),
        reads |-> IF OpensSource(installed, file) THEN 1 ELSE 0,
        writes |-> IF extracted.type = "raised" THEN 0 ELSE 1]

\* {normalize_section_token(s) for s in raw_sections if normalize_section_token(s)}
NormalizedSet(raw_sections) ==
    {normalize_section_token(raw_sections[i]) : i \in DOMAIN raw_sections} \ {<<>>}

\* load_reference_sections that returns the cached entries as they are
load_reference_sections_raw(cache, path, build, installed, file) ==
    IF cache.type # "absent"
    THEN [returned |-> IF cache.type = "corrupt" THEN Raises("JSONDecodeError")
                       ELSE Returns("set", {PyStr(cache.val[i]) : i \in DOMAIN cache.val}),
          cache |-> cache, reads |-> 0, writes |-> 0]
    ELSE IF build /\ Truthy(path) /\ file.type # "absent"
    THEN LET built == build_reference_json(installed, file, cache)
         IN [built EXCEPT !.returned =
                IF built.returned.type = "raised" THEN built.returned
                ELSE Returns("set", NormalizedSet(built.returned.val))]
    ELSE [returned |-> Returns("set", {}), cache |-> cache, reads |-> 0, writes |-> 0]

\* load_reference_sections(json_path, pdf_path, auto_build)
load_reference_sections(cache, path, build, installed, file) ==
    IF cache.type # "absent"
    THEN [returned |-> IF cache.type = "corrupt" THEN Raises("JSONDecodeError")
                       ELSE Returns("set", NormalizedSet(cache.val)),
          cache |-> cache, reads |-> 0, writes |-> 0]
    ELSE IF build /\ Truthy(path) /\ file.type # "absent"
    THEN LET built == build_reference_json(installed, file, cache)
         IN [built EXCEPT !.returned =
                IF built.returned.type = "raised" THEN built.returned
                ELSE Returns("set", NormalizedSet(built.returned.val))]
    ELSE [returned |-> Returns("set", {}), cache |-> cache, reads |-> 0, writes |-> 0]

(***************************************************************************)
(* Loading and building the reference set: the files are laid out, then    *)
(* load_reference_sections, build_reference_json or the build script runs. *)
(***************************************************************************)
MaxCacheEntries == 2

MaxSourceLines == 2

\* entries of the "sections" list of a cache file
CACHE_ENTRIES ==
    { Str(<<"3", "7", "9">>), Str(<<" ", "3", "5", "4", "a">>), Str(<<"x">>), None }

\* text lines of a source document
SOURCE_LINES ==
    { <<"S", "e", "c", "t", "i", "o", "n", " ", "3", "7", "9", " ", "T", "h", "e", "f", "t">>,
      <<"hi_dhArA", " ", " ", "3", "0", "2", ".">>,
      <<"s", "e", "e", " ", "s", "e", "c", "t", "i", "o", "n", " ", "3", "5", "4", "a">>,
      <<"I", "n", "d", "e", "x">> }

\* the file PdfReader is given
SourceAt(path, file) == IF Truthy(path) THEN file ELSE Absent

\* main of tests/rag/build_ipc_reference.py: a RuntimeError is printed
main(installed, file, cache) ==
    LET built == build_reference_json(installed, file, cache)
    IN [built EXCEPT !.returned =
           IF built.returned.type = "raised" /\ built.returned.val = <<"RuntimeError">>
           THEN Returns("reported", built.returned.val)
           ELSE built.returned]

InitLoad ==
    /\ pc = "files"
    /\ sections_line = Str(<<>>)
    /\ nparts = 0
    /\ reference_ipc_sections = NoReference
    /\ act_tags = {}
    /\ all_sections = <<>>
    /\ parts = <<>>
    /\ part_idx = 0
    /\ current_tags = {}
    /\ act_to_sections = <<>>
    /\ tags = NoTags
    /\ EvalIdle
    /\ NormIdle
    /\ QueryIdle
    /\ ResponseIdle
    /\ HarnessIdle
    /\ cache_file \in {Absent, Returns("corrupt", <<>>), Returns("json", <<>>)}
    /\ source_file \in {Absent, Returns("unreadable", <<>>), Returns("pdf", <<>>)}
    /\ pdf_path \in {Str(<<>>), Str(<<"p">>)}
    /\ auto_build \in BOOLEAN
    /\ pypdf_installed \in BOOLEAN
    /\ loaded = Unset
    /\ source_reads = 0
    /\ cache_writes = 0

tagVars == <<sections_line, nparts, reference_ipc_sections, act_tags, all_sections,
             parts, part_idx, current_tags, act_to_sections, tags>>

\* one more entry in the cache file's list
AddCacheEntry(e) ==
    /\ pc = "files"
    /\ cache_file.type = "json"
    /\ Len(cache_file.val) < MaxCacheEntries
    /\ cache_file' = Returns("json", Append(cache_file.val, e))
    /\ UNCHANGED <<harnessVars, pc, tagVars, evalVars, normVars, queryVars, responseVars,
                   source_file, pdf_path, auto_build, pypdf_installed, loaded,
                   source_reads, cache_writes>>

\* one more text line in the source document
AddSourceLine(l) ==
    /\ pc = "files"
    /\ source_file.type = "pdf"
    /\ Len(source_file.val) < MaxSourceLines
    /\ source_file' = Returns("pdf", Append(source_file.val, l))
    /\ UNCHANGED <<harnessVars, pc, tagVars, evalVars, normVars, queryVars, responseVars,
                   cache_file, pdf_path, auto_build, pypdf_installed, loaded,
                   source_reads, cache_writes>>

\* what a call leaves behind
Outcome(call, at) ==
    /\ loaded' = call.returned
    /\ cache_file' = call.cache
    /\ source_reads' = call.reads
    /\ cache_writes' = call.writes
    /\ pc' = at
    /\ UNCHANGED <<harnessVars, tagVars, evalVars, normVars, queryVars, responseVars,
                   source_file, pdf_path, auto_build, pypdf_installed>>

\* loaded = load_reference_sections(json_path, pdf_path, auto_build)
Load ==
    /\ pc = "files"
    /\ Outcome(load_reference_sections(cache_file, pdf_path, auto_build, pypdf_installed,
                                       SourceAt(pdf_path, source_file)), "loaded")

\* loaded = build_reference_json(pdf_path, json_path)
Build ==
    /\ pc = "files"
    /\ Outcome(build_reference_json(pypdf_installed, SourceAt(pdf_path, source_file),
                                    cache_file), "built")

\* python build_ipc_reference.py --ipc-pdf pdf_path --out-json json_path
BuildScript ==
    /\ pc = "files"
    /\ Outcome(main(pypdf_installed, SourceAt(pdf_path, source_file), cache_file), "script")

NextLoad ==
    \/ \E e \in CACHE_ENTRIES : AddCacheEntry(e)
    \/ \E l \in SOURCE_LINES : AddSourceLine(l)
    \/ Load
    \/ Build
    \/ BuildScript

SpecLoad == InitLoad /\ [][NextLoad]_vars

(***************************************************************************)
(* Properties of the reference store                                       *)
(***************************************************************************)
\* the step that is a call of load_reference_sections
LoadCall == pc = "files" /\ pc' = "loaded"

\* the call left the cache file alone
CacheKept == cache_file' = cache_file /\ cache_writes' = 0

\* no cache, and a build is allowed from a source path that is given and exists
MayBuild ==
    /\ cache_file.type = "absent"
    /\ auto_build
    /\ pdf_path.val # <<>>
    /\ source_file.type # "absent"

\* the call returned exactly the non-empty normalized entries of the list
ReturnedEntriesOf(entries) ==
    /\ loaded'.type = "set"
    /\ \A s \in loaded'.val :
          s # <<>> /\ \E i \in DOMAIN entries : s = normalize_section_token(entries[i])
    /\ \A i \in DOMAIN entries :
          normalize_section_token(entries[i]) # <<>>
             => normalize_section_token(entries[i]) \in loaded'.val

\* the call extracted the sections, wrote the cache and returned the set
BuiltAndReturned ==
    /\ source_reads' = 1
    /\ cache_writes' = 1
    /\ cache_file'.type = "json"
    /\ ReturnedEntriesOf(cache_file'.val)
    /\ loaded'.val = extract_reference_from_pdf(TRUE, source_file).val

\* the call returned the empty set and touched no file
ReturnedNothing ==
    /\ loaded'.type = "set"
    /\ loaded'.val = {}
    /\ source_reads' = 0
    /\ CacheKept

CanExtract == pypdf_installed /\ source_file.type = "pdf"

C15_WitnessCache ==
    /\ pc = "loaded"
    /\ cache_writes = 0
    /\ cache_file.type = "json"
    /\ Len(cache_file.val) = 2
    /\ loaded.type = "set"
    /\ loaded.val = {<<"3", "5", "4", "A">>}

C15_WitnessBuildFails ==
    /\ pc = "loaded"
    /\ loaded.type = "raised"

\* the step that is a call of build_reference_json, directly or by the script
BuildCall == pc = "files" /\ pc' \in {"built", "script"}

\* C16: when the source document cannot be opened or pypdf is missing, a
\* requested build fails with an error that is raised or printed, never with
\* a payload, and the cache file is neither written nor modified
C16_BuildFailureIsReported ==
    [][(BuildCall /\ ~(pypdf_installed /\ SourceAt(pdf_path, source_file).type = "pdf")) =>
          /\ loaded'.type \in {"raised", "reported"}
          /\ loaded'.val # <<>>
          /\ CacheKept]_vars

\* a build failed beside a cache that holds entries
C16_Witness ==
    /\ pc = "built"
    /\ loaded.type = "raised"
    /\ cache_file.type = "json"
    /\ Len(cache_file.val) > 0

C16_WitnessScript ==
    /\ pc = "script"
    /\ loaded.type = "reported"

(***************************************************************************)
(* is_act_section_query (app/act_section_eval.py)                          *)
(***************************************************************************)
\* ACT_SECTION_QUERY_KEYWORDS
ACT_SECTION_QUERY_KEYWORDS ==
    { <<"a", "c", "t", " ", "s", "e", "c", "t", "i", "o", "n">>,
      <<"a", "c", "t", " ", "s", "e", "c", "t", "i", "o", "n", "s">>,
      <<"i", "p", "c", " ", "s", "e", "c", "t", "i", "o", "n">>,
      <<"b", "n", "s", " ", "s", "e", "c", "t", "i", "o", "n">>,
      <<"w", "h", "i", "c", "h", " ", "s", "e", "c", "t", "i", "o", "n">>,
      <<"w", "h", "i", "c", "h", " ", "a", "c", "t">>,
      <<"hi_kaun", " ", "hi_sI", " ", "hi_dhArA">>,
      <<"hi_dhArA">>,
      <<"hi_adhiniyam">>,
      <<"i", "p", "c">>,
      <<"b", "n", "s">> }

\* keyword in text
Contains(text, keyword) ==
    \E i \in 0..(Len(text) - Len(keyword)) :
        SubSeq(text, i + 1, i + Len(keyword)) = keyword

\* is_act_section_query that looks for the keywords in the query as typed
is_act_section_query_as_typed(q) ==
    \E keyword \in ACT_SECTION_QUERY_KEYWORDS : Contains(PyStr(Or(q, Str(<<>>))), keyword)

\* is_act_section_query
is_act_section_query(q) ==
    LET lowered == Join(<<" ">>, SplitWords(LowerStr(PyStr(Or(q, Str(<<>>))))))
    IN \E keyword \in ACT_SECTION_QUERY_KEYWORDS : Contains(lowered, keyword)

MaxQueryChunks == 4

\* the values a query starts from: the empty string, None, numbers
QUERY_ARGUMENTS == {Str(<<>>), None, IntVal(<<"0">>), IntVal(<<"4", "2">>)}

\* the chunks a query is typed from
QUERY_CHUNKS ==
    { <<"W", "h", "i", "c", "h">>, <<"A", "c", "t">>, <<"s", "u", "b", "n", "s">>,
      <<"hi_dhArA">>, <<"hi_kes">>, <<"I", "O">>, <<" ">>, <<"\n">> }

InitQuery ==
    /\ pc = "query"
    /\ sections_line = Str(<<>>)
    /\ nparts = 0
    /\ reference_ipc_sections = NoReference
    /\ act_tags = {}
    /\ all_sections = <<>>
    /\ parts = <<>>
    /\ part_idx = 0
    /\ current_tags = {}
    /\ act_to_sections = <<>>
    /\ tags = NoTags
    /\ EvalIdle
    /\ NormIdle
    /\ LoadIdle
    /\ ResponseIdle
    /\ HarnessIdle
    /\ query \in QUERY_ARGUMENTS
    /\ query_answer = Unset

\* one more chunk of the query
AddQueryChunk(c) ==
    /\ pc = "query"
    /\ query.type = "str"
    /\ nparts < MaxQueryChunks
    /\ query' = Str(query.val \o c)
    /\ nparts' = nparts + 1
    /\ UNCHANGED <<harnessVars, pc, sections_line, reference_ipc_sections, act_tags, all_sections,
                   parts, part_idx, current_tags, act_to_sections, tags, evalVars,
                   normVars, loadVars, responseVars, query_answer>>

\* query_answer = is_act_section_query(query)
AskQuery ==
    /\ pc = "query"
    /\ query_answer' = Returns("bool", is_act_section_query(query))
    /\ pc' = "answered"
    /\ UNCHANGED <<harnessVars, tagVars, evalVars, normVars, loadVars, responseVars, query>>

NextQuery ==
    \/ \E c \in QUERY_CHUNKS : AddQueryChunk(c)
    \/ AskQuery

SpecQuery == InitQuery /\ [][NextQuery]_vars

(***************************************************************************)
(* Properties of is_act_section_query                                      *)
(***************************************************************************)
\* the text of the query: str(query or "")
QueryText == IF Truthy(query) THEN PyStr(query) ELSE <<>>

\* the words of a text, in lower case
LowerWords(text) == SplitWords(LowerStr(text))

\* texts that differ from the text in letter case or amount of whitespace only
Retyped(text) ==
    { [i \in DOMAIN text |-> Upper(text[i])],
      LowerStr(text),
      Join(<<" ", "\t", " ">>, SplitWords(text)),
      <<"\n">> \o text \o <<" ">> }

\* C17: the answer is TRUE exactly when the lower-cased, whitespace-collapsed
\* query contains a keyword; retyping the query in another letter case or with
\* other amounts of whitespace keeps the answer; a Hindi query with the word
\* for section is accepted, one without a keyword rejected; None and
\* non-strings get an answer
C17_QueryKeywords ==
    pc = "answered" =>
        /\ query_answer.type = "bool"
        /\ query_answer.val =
              (\E keyword \in ACT_SECTION_QUERY_KEYWORDS :
                  Contains(Join(<<" ">>, LowerWords(QueryText)), keyword))
        /\ \A text \in Retyped(QueryText) :
              LowerWords(text) = LowerWords(QueryText)
                 /\ is_act_section_query(Str(text)) = query_answer.val
        /\ Contains(QueryText, <<"hi_dhArA">>) => query_answer.val
        /\ (QueryText # <<>> /\ \A i \in DOMAIN QueryText :
               QueryText[i] \in {"hi_kes", " ", "\n"}) => ~query_answer.val

\* a query typed in mixed case over two lines is accepted
C17_Witness ==
    /\ pc = "answered"
    /\ query = Str(<<"W", "h", "i", "c", "h", "\n", " ", "A", "c", "t">>)
    /\ query_answer.val

C17_WitnessHindiRejected ==
    /\ pc = "answered"
    /\ query = Str(<<"hi_kes", " ", "I", "O">>)
    /\ ~query_answer.val

(***************************************************************************)
(* extract_predicted_act_section_text (app/act_section_eval.py)            *)
(***************************************************************************)
\* the offset after the run of characters of the class that starts at offset i
SkipClass(t, i, class) ==
    CHOOSE j \in i..Len(t) :
        /\ \A k \in (i + 1)..j : t[k] \in class
        /\ j = Len(t) \/ t[j + 1] \notin class

\* the offset after the word, read without regard to case, at offset i, else -1
WordEnd(t, i, word) ==
    IF i >= 0 /\ i + Len(word) <= Len(t) /\ FoldStr(SubSeq(t, i + 1, i + Len(word))) = word
    THEN i + Len(word)
    ELSE -1

\* [_\s-]
LABEL_SEPARATORS == SpaceSet \cup {"_", "-"}

\* the offset after Predicted[_\s-]*Act[_\s-]*Section\s*: at offset i, else -1
LabelEnd(t, i) ==
    LET p == WordEnd(t, i, <<"p", "r", "e", "d", "i", "c", "t", "e", "d">>)
        a == IF p < 0 THEN -1
             ELSE WordEnd(t, SkipClass(t, p, LABEL_SEPARATORS), <<"a", "c", "t">>)
        s == IF a < 0 THEN -1
             ELSE WordEnd(t, SkipClass(t, a, LABEL_SEPARATORS),
                          <<"s", "e", "c", "t", "i", "o", "n">>)
    IN IF s < 0 THEN -1 ELSE WordEnd(t, SkipSpace(t, s), <<":">>)

\* the offset where the line that holds offset i + 1 ends
EndOfLine(t, i) ==
    CHOOSE j \in i..Len(t) :
        /\ \A k \in (i + 1)..j : t[k] # "\n"
        /\ j = Len(t) \/ t[j + 1] = "\n"

\* group 1 of \s*(.+) at offset i, as [found, val]: the greedy \s* gives
\* characters back until (.+) has a character that is no newline
ValueAfter(t, i) ==
    LET j == SkipSpace(t, i)
    IN IF j < Len(t) THEN [found |-> TRUE, val |-> SubSeq(t, j + 1, EndOfLine(t, j))]
       ELSE IF \E k \in (i + 1)..Len(t) : t[k] # "\n"
       THEN LET k == CHOOSE k \in (i + 1)..Len(t) :
                        t[k] # "\n" /\ \A m \in (k + 1)..Len(t) : t[m] = "\n"
            IN [found |-> TRUE, val |-> <<t[k]>>]
       ELSE [found |-> FALSE, val |-> <<>>]

\* _PREDICTED_LINE_RE.search(t): group 1 of the leftmost match, as [found, val]
PREDICTED_LINE_RE(t) ==
    LET starts == {i \in 0..Len(t) : LabelEnd(t, i) >= 0 /\ ValueAfter(t, LabelEnd(t, i)).found}
    IN IF starts = {} THEN [found |-> FALSE, val |-> <<>>]
       ELSE ValueAfter(t, LabelEnd(t, CHOOSE i \in starts : \A j \in starts : i <= j))

\* the characters line.strip(" -*\t") removes
BULLETS == {" ", "-", "*", "\t"}

\* line.strip(chars)
StripChars(line, chars) ==
    LET kept == {i \in DOMAIN line : line[i] \notin chars}
    IN IF kept = {} THEN <<>>
       ELSE SubSeq(line, CHOOSE i \in kept : \A j \in kept : i <= j,
                         CHOOSE i \in kept : \A j \in kept : j <= i)

\* line.lstrip(chars)
LStripChars(line, chars) ==
    LET kept == {i \in DOMAIN line : line[i] \notin chars}
    IN IF kept = {} THEN <<>>
       ELSE SubSeq(line, CHOOSE i \in kept : \A j \in kept : i <= j, Len(line))

\* t.splitlines()
SplitLines(t) ==
    LET lines == Split(t, "\n")
    IN IF lines # <<>> /\ lines[Len(lines)] = <<>> THEN SubSeq(lines, 1, Len(lines) - 1)
       ELSE lines

\* the first line that is not empty once cleaned, cleaned; "" if there is none
FirstCleaned(lines, chars) ==
    LET full == {i \in DOMAIN lines : StripChars(lines[i], chars) # <<>>}
    IN IF full = {} THEN <<>>
       ELSE StripChars(lines[CHOOSE i \in full : \A j \in full : i <= j], chars)

\* extract_predicted_act_section_text that takes the first line as it is
extract_predicted_act_section_text_first_line(llm_response) ==
    IF llm_response.type # "str" THEN <<>>
    ELSE LET match == PREDICTED_LINE_RE(llm_response.val)
         IN IF match.found THEN Strip(match.val)
            ELSE FirstCleaned(SplitLines(llm_response.val), {})

\* extract_predicted_act_section_text
extract_predicted_act_section_text(llm_response) ==
    IF llm_response.type # "str" THEN <<>>
    ELSE LET match == PREDICTED_LINE_RE(llm_response.val)
         IN IF match.found THEN Strip(match.val)
            ELSE FirstCleaned(SplitLines(llm_response.val), BULLETS)

MaxResponseChunks == 4

\* the values a response starts from: the empty string, None, a number
RESPONSE_ARGUMENTS == {Str(<<>>), None, IntVal(<<"4", "2">>)}

\* the chunks a response is written from
RESPONSE_CHUNKS ==
    { <<"P", "r", "e", "d", "i", "c", "t", "e", "d", "_", "A", "c", "t", "_",
        "S", "e", "c", "t", "i", "o", "n", ":">>,
      <<"p", "r", "e", "d", "i", "c", "t", "e", "d", " ", "a", "c", "t", " ", "-", " ",
        "S", "E", "C", "T", "I", "O", "N", " ", ":", " ", "B", "N", "S", "-", "3", "0", "2">>,
      <<"I", "P", "C", "-", "3", "7", "9">>,
      <<" ">>, <<"\n">>, <<"-">>, <<"*">> }

InitResponse ==
    /\ pc = "response"
    /\ sections_line = Str(<<>>)
    /\ nparts = 0
    /\ reference_ipc_sections = NoReference
    /\ act_tags = {}
    /\ all_sections = <<>>
    /\ parts = <<>>
    /\ part_idx = 0
    /\ current_tags = {}
    /\ act_to_sections = <<>>
    /\ tags = NoTags
    /\ EvalIdle
    /\ NormIdle
    /\ LoadIdle
    /\ QueryIdle
    /\ HarnessIdle
    /\ response \in RESPONSE_ARGUMENTS
    /\ predicted_act_section = Unset

\* one more chunk of the response
AddResponseChunk(c) ==
    /\ pc = "response"
    /\ response.type = "str"
    /\ nparts < MaxResponseChunks
    /\ response' = Str(response.val \o c)
    /\ nparts' = nparts + 1
    /\ UNCHANGED <<harnessVars, pc, sections_line, reference_ipc_sections, act_tags, all_sections,
                   parts, part_idx, current_tags, act_to_sections, tags, evalVars,
                   normVars, loadVars, queryVars, predicted_act_section>>

\* predicted_act_section = extract_predicted_act_section_text(response)
ExtractPredicted ==
    /\ pc = "response"
    /\ predicted_act_section' = Str(extract_predicted_act_section_text(response))
    /\ pc' = "extracted"
    /\ UNCHANGED <<harnessVars, tagVars, evalVars, normVars, loadVars, queryVars, response>>

NextResponse ==
    \/ \E c \in RESPONSE_CHUNKS : AddResponseChunk(c)
    \/ ExtractPredicted

SpecResponse == InitResponse /\ [][NextResponse]_vars

(***************************************************************************)
(* Properties of extract_predicted_act_section_text                        *)
(***************************************************************************)
\* where the labels of a line end: the offsets after a label's colon
LabelEnds(line) == {LabelEnd(line, i) : i \in 0..Len(line)} \ {-1}

\* the lines of the response that carry a label
LabelledLines == {i \in DOMAIN SplitLines(response.val) : LabelEnds(SplitLines(response.val)[i]) # {}}

\* what follows the colon of the first label of the line, trimmed
LabelledValue(line) ==
    Strip(SubSeq(line, (CHOOSE e \in LabelEnds(line) : \A f \in LabelEnds(line) : e <= f) + 1,
                 Len(line)))

\* C18: when a line of the response is labelled Predicted_Act_Section, the
\* result is the trimmed value after the colon on the first such line, and so
\* never text of another line
C18_ValueOfLabelledLine ==
    (pc = "extracted" /\ response.type = "str" /\ LabelledLines # {}) =>
        predicted_act_section.val =
            LabelledValue(SplitLines(response.val)[
                CHOOSE i \in LabelledLines : \A j \in LabelledLines : i <= j])

\* the lines that hold a character that is no bullet, dash, asterisk or blank
FullLines == {i \in DOMAIN SplitLines(response.val) :
                 \E k \in DOMAIN SplitLines(response.val)[i] :
                    SplitLines(response.val)[i][k] \notin BULLETS}

\* the first of those lines
FirstFullLine == SplitLines(response.val)[CHOOSE i \in FullLines : \A j \in FullLines : i <= j]

\* no label, and some line to fall back to
FallsBack ==
    /\ pc = "extracted"
    /\ response.type = "str"
    /\ LabelledLines = {}
    /\ FullLines # {}

\* a response that is no string, or holds only whitespace and bullets
NothingToRead ==
    /\ pc = "extracted"
    /\ response.type # "str" \/ \A k \in DOMAIN response.val : response.val[k] \in BULLETS \cup {"\n"}

C19_WitnessNothing ==
    /\ pc = "extracted"
    /\ response = Str(<<" ", "-", "\n", "*">>)
    /\ predicted_act_section = Str(<<>>)

(***************************************************************************)
(* Properties of get_expected_from_context                                 *)
(***************************************************************************)
\* the citation line the record stores, "" when it stores none
StoredLine ==
    IF expected_context.sections_line.type = "str" THEN expected_context.sections_line.val
    ELSE <<>>

\* the line extract_sections_line finds in the record's raw text
TextLine ==
    IF expected_context.text.type = "str" THEN extract_sections_line(expected_context.text).val
    ELSE <<>>

\* the section codes of the record's stored ipc_sections and bns_sections
StoredSections ==
    (IF expected_context.ipc_sections.type = "list"
     THEN Range(expected_context.ipc_sections.val) ELSE {})
    \cup (IF expected_context.bns_sections.type = "list"
          THEN Range(expected_context.bns_sections.val) ELSE {})

\* C20: the expected citation line is the stored one when it is non-empty,
\* else the one extracted from the raw text; the expected sections are the
\* tagger's all_sections of that line when it finds a code, whatever lists the
\* record stores, and the union of the stored lists only when it finds none
C20_ExpectedFromContext ==
    Evaluated =>
        \A line \in {IF StoredLine # <<>> THEN StoredLine ELSE TextLine} :
        \A found \in {Range(tag_sections_line(Str(line), NoReference).all_sections)} :
           /\ evaluation.expected.sections_line = line
           /\ found # {} => ExpectedSections = found
           /\ found = {} => ExpectedSections = StoredSections

\* the line is taken from the raw text and its code wins over the stored lists
C20_Witness ==
    /\ Evaluated
    /\ StoredLine = <<>>
    /\ evaluation.expected.sections_line = <<"B", "N", "S", "-", "3", "0", "2">>
    /\ StoredSections = {<<"3", "7", "9">>, <<"3", "0", "2">>}
    /\ ExpectedSections = {<<"3", "0", "2">>}

\* no line anywhere: the stored lists are the expected sections
C20_WitnessStoredLists ==
    /\ Evaluated
    /\ evaluation.expected.sections_line = <<>>
    /\ ExpectedSections = {<<"3", "7", "9">>, <<"3", "0", "2">>}

\* the stored line wins over the raw text
C20_WitnessStoredLine ==
    /\ Evaluated
    /\ StoredLine # <<>>
    /\ TextLine # <<>>
    /\ evaluation.expected.sections_line = StoredLine
    /\ StoredLine # TextLine

(***************************************************************************)
(* validate_ipc_tagging.py: the batch validation of the tagger against the *)
(* citation lines of the stored records.  A float is written as the        *)
(* fraction in lowest terms it is the value of.                            *)
(***************************************************************************)
P_bharatiya_dand_sanhita ==
    <<L("hi_bhA"), L("hi_ratIya"), WS, L("hi_daM"), L("hi_Da"), WS,
      L("hi_saM"), L("hi_hitA")>>
P_bharatiya_dandd_sanhita ==
    <<L("hi_bhA"), L("hi_ratIya"), WS, L("hi_daNDa"), WS, L("hi_saM"), L("hi_hitA")>>
P_bharatiya_nyaya_sanhita ==
    <<L("hi_bhA"), L("hi_ratIya"), WS, L("hi_nyAya"), WS, L("hi_saM"), L("hi_hitA")>>

IPC_GT_PATTERNS ==
    {P_ipc, P_i_p_c, P_bha_dam_sam, P_bharatiya_dand_sanhita, P_bharatiya_dandd_sanhita}

BNS_GT_PATTERNS == {P_bns, P_bi_en_es, P_bharatiya_nyaya_sanhita}

IPC_SHORTFORM_PATTERNS == {P_ipc, P_i_p_c, P_bha_dam_sam}

BNS_SHORTFORM_PATTERNS == {P_bns, P_bi_en_es}

\* _contains_any: re.search with re.IGNORECASE on the text as given
contains_any(text, patterns) ==
    \E folded \in {FoldStr(text)} : \E p \in patterns : Search(p, folded)

\* the first half of the loop body: what is read from one row
row_outcome(row, reference) ==
    CHOOSE outcome \in
        {[pred_ipc |-> "IPC_1860" \in Range(row_tags.act_tags),
          pred_bns |-> "BNS_2023" \in Range(row_tags.act_tags),
          gt_ipc |-> contains_any(line.val, IPC_GT_PATTERNS),
          gt_bns |-> contains_any(line.val, BNS_GT_PATTERNS),
          short_ipc |-> contains_any(line.val, IPC_SHORTFORM_PATTERNS),
          short_bns |-> contains_any(line.val, BNS_SHORTFORM_PATTERNS),
          act_tags |-> row_tags.act_tags,
          ipc_sections_raw |-> Range(row_tags.ipc_sections_raw),
          ipc_sections |-> Range(row_tags.ipc_sections)] :
            line \in {extract_sections_line(DictGetOr(row, "text", Str(<<>>)))},
            row_tags \in {tag_sections_line(
                             extract_sections_line(DictGetOr(row, "text", Str(<<>>))),
                             reference)}} : TRUE

\* the counters before the first row
NoCounts ==
    [ipc_tp |-> 0, ipc_fp |-> 0, ipc_fn |-> 0, ipc_tn |-> 0,
     bns_tp |-> 0, bns_fp |-> 0, bns_fn |-> 0, bns_tn |-> 0,
     ipc_short_total |-> 0, ipc_short_hit |-> 0,
     bns_short_total |-> 0, bns_short_hit |-> 0,
     act_counter |-> <<>>, ipc_sections_raw |-> {}, ipc_sections_validated |-> {}]

\* act_counter[tag] += 1: a Counter keeps its keys in the order they came in
Increment(act_counter, tag) ==
    IF \E i \in DOMAIN act_counter : act_counter[i][1] = tag
    THEN [i \in DOMAIN act_counter |->
             IF act_counter[i][1] = tag THEN <<tag, act_counter[i][2] + 1>>
             ELSE act_counter[i]]
    ELSE Append(act_counter, <<tag, 1>>)

RECURSIVE IncrementAll(_, _, _)
\* for tag in tags.get("act_tags", []): act_counter[tag] += 1
IncrementAll(act_counter, tag_list, i) ==
    IF i > Len(tag_list) THEN act_counter
    ELSE IncrementAll(Increment(act_counter, tag_list[i]), tag_list, i + 1)

\* the four-way branch on ground truth and prediction
Cell(gt, pred) ==
    IF gt /\ pred THEN "tp"
    ELSE IF gt /\ ~pred THEN "fn"
    ELSE IF ~gt /\ pred THEN "fp"
    ELSE "tn"

\* a counter that goes up whatever the branch taken
Plus_always(n, b) == n + 1

\* the counter n, one higher when the branch b is the one taken
Plus(n, b) == IF b THEN n + 1 ELSE n

\* the second half of the loop body: the counters after one more row
count_row(st, o) ==
    LET ipc == Cell(o.gt_ipc, o.pred_ipc)
        bns == Cell(o.gt_bns, o.pred_bns)
    IN [ipc_tp |-> Plus(st.ipc_tp, ipc = "tp"),
        ipc_fp |-> Plus(st.ipc_fp, ipc = "fp"),
        ipc_fn |-> Plus(st.ipc_fn, ipc = "fn"),
        ipc_tn |-> Plus(st.ipc_tn, ipc = "tn"),
        bns_tp |-> Plus(st.bns_tp, bns = "tp"),
        bns_fp |-> Plus(st.bns_fp, bns = "fp"),
        bns_fn |-> Plus(st.bns_fn, bns = "fn"),
        bns_tn |-> Plus(st.bns_tn, bns = "tn"),
        ipc_short_total |-> Plus(st.ipc_short_total, o.short_ipc),
        ipc_short_hit |-> Plus(st.ipc_short_hit, o.short_ipc /\ o.pred_ipc),
        bns_short_total |-> Plus(st.bns_short_total, o.short_bns),
        bns_short_hit |-> Plus(st.bns_short_hit, o.short_bns /\ o.pred_bns),
        act_counter |-> IncrementAll(st.act_counter, o.act_tags, 1),
        ipc_sections_raw |-> st.ipc_sections_raw \cup o.ipc_sections_raw,
        ipc_sections_validated |-> st.ipc_sections_validated \cup o.ipc_sections]

RECURSIVE CountFrom(_, _, _)
\* the loop over the rows, from row i on
CountFrom(outcomes, i, st) ==
    IF i > Len(outcomes) THEN st
    ELSE CountFrom(outcomes, i + 1, count_row(st, outcomes[i]))

RECURSIVE GCD(_, _)
GCD(a, b) == IF b = 0 THEN a ELSE GCD(b, a % b)

\* the float a / b
Float(a, b) == [num |-> a \div GCD(a, b), den |-> b \div GCD(a, b)]

\* the division without the test of the denominator
safe_div_unguarded(a, b) ==
    IF b = 0 THEN Raises("ZeroDivisionError") ELSE Float(a, b)

\* _safe_div
safe_div(a, b) == IF b # 0 THEN Float(a, b) ELSE Float(0, 1)

\* the first n keys in the order they came in, whatever their counts
most_common_as_inserted(act_counter, n) ==
    SubSeq(act_counter, 1, IF Len(act_counter) < n THEN Len(act_counter) ELSE n)

\* Counter.most_common(n): by count, the highest first; equal counts stay in
\* the order the keys came in
most_common(act_counter, n) ==
    LET rank(i) == Cardinality({j \in DOMAIN act_counter :
                       \/ act_counter[j][2] > act_counter[i][2]
                       \/ act_counter[j][2] = act_counter[i][2] /\ j <= i})
        ordered == [r \in DOMAIN act_counter |->
                       act_counter[CHOOSE i \in DOMAIN act_counter : rank(i) = r]]
    IN SubSeq(ordered, 1, IF Len(ordered) < n THEN Len(ordered) ELSE n)

\* the detection entry of the report for one act
Detection(tp, fp, fn, tn) ==
    [tp |-> tp, fp |-> fp, fn |-> fn, tn |-> tn,
     precision |-> safe_div(tp, tp + fp),
     recall |-> safe_div(tp, tp + fn),
     f1 |-> safe_div(2 * tp, (2 * tp) + fp + fn)]

\* the short-form entry of the report for one act
Coverage(total, hit) ==
    [total_with_shortform |-> total, tagged |-> hit, coverage |-> safe_div(hit, total)]

\* the report dictionary built from the counters
report_of(st, total_cases, reference) ==
    LET dropped == SortedList(st.ipc_sections_raw \ st.ipc_sections_validated)
        entries == <<Detection(st.ipc_tp, st.ipc_fp, st.ipc_fn, st.ipc_tn),
                     Detection(st.bns_tp, st.bns_fp, st.bns_fn, st.bns_tn),
                     Coverage(st.ipc_short_total, st.ipc_short_hit),
                     Coverage(st.bns_short_total, st.bns_short_hit)>>
    IN IF \E i \in DOMAIN entries :
              \E f \in DOMAIN entries[i] \cap {"precision", "recall", "f1", "coverage"} :
                  "type" \in DOMAIN entries[i][f]
       THEN Raises("ZeroDivisionError")
       ELSE Returns("dict",
              [total_cases |-> total_cases,
               ipc_detection |-> entries[1],
               bns_detection |-> entries[2],
               shortform_coverage |-> [ipc |-> entries[3], bns |-> entries[4]],
               top_act_tags |-> most_common(st.act_counter, 20),
               ipc_reference_validation |->
                   [reference_enabled |-> OrEmptySet(reference) # {},
                    reference_section_count |-> Cardinality(OrEmptySet(reference)),
                    ipc_sections_raw_count |-> Cardinality(st.ipc_sections_raw),
                    ipc_sections_validated_count |->
                        Cardinality(st.ipc_sections_validated),
                    ipc_sections_dropped_by_reference_count |-> Len(dropped),
                    dropped_sections_sample |->
                        SubSeq(dropped, 1, IF Len(dropped) < 50 THEN Len(dropped) ELSE 50)]])

\* what each row of the batch gives
Outcomes(rows, reference) == [i \in DOMAIN rows |-> row_outcome(rows[i], reference)]

\* validate_ipc_tags
validate_ipc_tags(rows, reference) ==
    CHOOSE result \in
        {report_of(CountFrom(outcomes, 1, NoCounts), Len(rows), reference) :
            outcomes \in {Outcomes(rows, reference)}} : TRUE

(***************************************************************************)
(* The batch validation as a state machine: the caller collects the rows   *)
(* of the metadata file, then calls validate_ipc_tags on them with the     *)
(* reference set main() has loaded, which is empty when loading failed.    *)
(***************************************************************************)
MaxRows == 3

\* the citation lines of the stored records
ROW_CITATIONS ==
    { <<"I", "P", "C", "-", "3", "7", "9">>,
      <<"B", "N", "S", "-", "3", "0", "3">>,
      <<"I_dot", "P", "C", "-", "3", "7", "9">>,
      <<"i", "n", "d", "i", "a", "n", " ", "p", "e", "n", "a", "l", " ",
        "c", "o", "d", "e", "-", "3", "0", "2">>,
      <<"A", "r", "m", "s", " ", "A", "c", "t", "-", "2", "5">>,
      <<"hi_bhA", "hi_ratIya", " ", "hi_daM", "hi_Da", " ", "hi_saM",
        "hi_hitA", "-", "4", "1", "1">> }

\* the rows: a record text holding a citation line, and a row without text
METADATA_ROWS ==
    {[text |-> Str(SECTIONS_LABEL \o <<" ">> \o c)] : c \in ROW_CITATIONS}
        \cup {[text |-> Absent]}

InitValidate ==
    /\ pc = "rows"
    /\ sections_line = Str(<<>>)
    /\ nparts = 0
    /\ reference_ipc_sections \in REFERENCES \ {NoReference}
    /\ act_tags = {}
    /\ all_sections = <<>>
    /\ parts = <<>>
    /\ part_idx = 0
    /\ current_tags = {}
    /\ act_to_sections = <<>>
    /\ tags = NoTags
    /\ EvalIdle
    /\ NormIdle
    /\ LoadIdle
    /\ QueryIdle
    /\ ResponseIdle
    /\ DedupIdle
    /\ DocumentIdle
    /\ metadata_rows = <<>>
    /\ report = Unset

\* one more row in the metadata file
AddRow(row) ==
    /\ pc = "rows"
    /\ Len(metadata_rows) < MaxRows
    /\ metadata_rows' = Append(metadata_rows, row)
    /\ UNCHANGED <<pc, tagVars, evalVars, normVars, loadVars, queryVars,
                   responseVars, dedupVars, documentVars, report>>

\* report = validate_ipc_tags(metadata_rows, reference_ipc_sections)
Validate ==
    /\ pc = "rows"
    /\ report' = validate_ipc_tags(metadata_rows, reference_ipc_sections)
    /\ pc' = "validated"
    /\ UNCHANGED <<tagVars, evalVars, normVars, loadVars, queryVars,
                   responseVars, dedupVars, documentVars, metadata_rows>>

NextValidate ==
    \/ \E row \in METADATA_ROWS : AddRow(row)
    \/ Validate

SpecValidate == InitValidate /\ [][NextValidate]_vars

\* validate_ipc_tags has returned
Validated == pc = "validated"

\* the two detection entries and the two short-form entries of the report
Detections == {report.val.ipc_detection, report.val.bns_detection}
Coverages == {report.val.shortform_coverage.ipc, report.val.shortform_coverage.bns}

\* the float x is the quotient a / b
IsQuotient(x, a, b) == x.den > 0 /\ x.num * b = a * x.den

\* the float x is 0.0
IsZero(x) == x.num = 0 /\ x.den = 1

\* the float x is a / b, and 0.0 when b is 0
IsSafeQuotient(x, a, b) == IF b = 0 THEN IsZero(x) ELSE IsQuotient(x, a, b)

\* C21: validate_ipc_tags never fails with a division by zero, the empty
\* record set included; in each detection entry precision = tp/(tp+fp),
\* recall = tp/(tp+fn) and f1 = 2tp/(2tp+fp+fn), and each of them, like each
\* short-form coverage = tagged/total, is 0.0 when its denominator is 0
C21_SafeMetrics ==
    Validated =>
        /\ report.type = "dict"
        /\ \A d \in Detections :
              /\ IsSafeQuotient(d.precision, d.tp, d.tp + d.fp)
              /\ IsSafeQuotient(d.recall, d.tp, d.tp + d.fn)
              /\ IsSafeQuotient(d.f1, 2 * d.tp, (2 * d.tp) + d.fp + d.fn)
        /\ \A c \in Coverages :
              IsSafeQuotient(c.coverage, c.tagged, c.total_with_shortform)

\* the empty record set was validated: every denominator is 0
C21_Witness ==
    /\ Validated
    /\ metadata_rows = <<>>
    /\ report.type = "dict"
    /\ report.val.ipc_detection.f1 = Float(0, 1)

\* a record set with a precision that is neither 0 nor 1, next to a zero
\* denominator for the other act
C21_WitnessFraction ==
    /\ Validated
    /\ report.type = "dict"
    /\ report.val.ipc_detection.precision = [num |-> 1, den |-> 2]
    /\ report.val.ipc_detection.f1 = [num |-> 2, den |-> 3]
    /\ report.val.bns_detection.tp + report.val.bns_detection.fp = 0

(***************************************************************************)
(* The batch in another order, and in shards whose counters are added up.  *)
(***************************************************************************)
\* the orders the rows 1..n can be processed in
Orders(n) == {p \in [1..n -> 1..n] : \A i, j \in 1..n : i # j => p[i] # p[j]}

\* the rows in the order p
Reordered(outcomes, p) == [i \in DOMAIN outcomes |-> outcomes[p[i]]]

\* the counters of one run over the rows
Counted(outcomes) == CountFrom(outcomes, 1, NoCounts)

\* the count of a tag in a counter, 0 when it is not a key
CountOf(act_counter, tag) ==
    IF \E i \in DOMAIN act_counter : act_counter[i][1] = tag
    THEN act_counter[CHOOSE i \in DOMAIN act_counter : act_counter[i][1] = tag][2]
    ELSE 0

\* the sum of two Counters: the keys of the first, then the new keys of the second
AddCounters(a, b) ==
    [i \in DOMAIN a |-> <<a[i][1], a[i][2] + CountOf(b, a[i][1])>>]
        \o SelectSeq(b, LAMBDA e : CountOf(a, e[1]) = 0)

\* the counters of two shards added up, the sets united
Summed(a, b) ==
    [ipc_tp |-> a.ipc_tp + b.ipc_tp, ipc_fp |-> a.ipc_fp + b.ipc_fp,
     ipc_fn |-> a.ipc_fn + b.ipc_fn, ipc_tn |-> a.ipc_tn + b.ipc_tn,
     bns_tp |-> a.bns_tp + b.bns_tp, bns_fp |-> a.bns_fp + b.bns_fp,
     bns_fn |-> a.bns_fn + b.bns_fn, bns_tn |-> a.bns_tn + b.bns_tn,
     ipc_short_total |-> a.ipc_short_total + b.ipc_short_total,
     ipc_short_hit |-> a.ipc_short_hit + b.ipc_short_hit,
     bns_short_total |-> a.bns_short_total + b.bns_short_total,
     bns_short_hit |-> a.bns_short_hit + b.bns_short_hit,
     act_counter |-> AddCounters(a.act_counter, b.act_counter),
     ipc_sections_raw |-> a.ipc_sections_raw \cup b.ipc_sections_raw,
     ipc_sections_validated |-> a.ipc_sections_validated \cup b.ipc_sections_validated]

\* the reports of the same rows in every order, and of every order cut in
\* two shards counted apart
OtherReports ==
    UNION {{report_of(Counted(Reordered(outcomes, p)), Len(outcomes),
                      reference_ipc_sections) : p \in Orders(Len(outcomes))}
           \cup
           {report_of(Summed(Counted(SubSeq(Reordered(outcomes, p), 1, k)),
                             Counted(SubSeq(Reordered(outcomes, p), k + 1, Len(outcomes)))),
                      Len(outcomes), reference_ipc_sections) :
                p \in Orders(Len(outcomes)), k \in 0..Len(outcomes)} :
           outcomes \in {Outcomes(metadata_rows, reference_ipc_sections)}}

\* the report without its top-act list
Untopped(r) == [r EXCEPT !.val.top_act_tags = <<>>]

\* the list holds each act once and the higher counts first
Descending(top) ==
    \A i, j \in DOMAIN top : i < j => top[i][2] >= top[j][2] /\ top[i][1] # top[j][1]

\* C22 as stated: the rows in any order, or in shards whose tallies are
\* summed, give the report of the sequential run: counts, metrics, short-form
\* coverage, reference diagnostics and top-act list
C22_OrderIndependent ==
    Validated => \A other \in OtherReports : other = report

\* C22: the rows in any order, or in shards whose tallies are summed, give
\* the counts, metrics, short-form coverage and reference diagnostics of the
\* sequential run, and a top-act list with the same acts and counts, the
\* higher counts first; acts with equal counts may stand in another order
C22_OrderIndependentUpToTies ==
    Validated =>
        /\ Descending(report.val.top_act_tags)
        /\ \A other \in OtherReports :
              /\ Untopped(other) = Untopped(report)
              /\ Range(other.val.top_act_tags) = Range(report.val.top_act_tags)
              /\ Descending(other.val.top_act_tags)

\* three rows with an act each were validated, and another order of the
\* rows lists the acts the other way round
C22_Witness ==
    /\ Validated
    /\ Len(metadata_rows) = 3
    /\ report.val.top_act_tags = << <<"IPC_1860", 1>>, <<"BNS_2023", 1>>,
                                    <<"ARMS_ACT_1959", 1>> >>
    /\ \E other \in OtherReports :
          other.val.top_act_tags = << <<"ARMS_ACT_1959", 1>>, <<"BNS_2023", 1>>,
                                      <<"IPC_1860", 1>> >>

\* C29: when validate_ipc_tags has returned, each act's tp + fp + fn + tn is
\* the number of records processed, and each act's short-form tagged count
\* is at most its short-form total
C29_EveryRecordCountedOnce ==
    Validated =>
        /\ report.val.total_cases = Len(metadata_rows)
        /\ \A d \in Detections : d.tp + d.fp + d.fn + d.tn = Len(metadata_rows)
        /\ \A c \in Coverages : c.tagged <= c.total_with_shortform

\* three records were validated, one in each of three cells for IPC, and one
\* of them holds the short form
C29_Witness ==
    /\ Validated
    /\ Len(metadata_rows) = 3
    /\ report.val.ipc_detection.tp = 1
    /\ report.val.ipc_detection.fp = 1
    /\ report.val.ipc_detection.tn = 1
    /\ report.val.shortform_coverage.ipc.total_with_shortform = 1
    /\ report.val.shortform_coverage.ipc.tagged = 1

\* C30: the harness never records a false negative: fn is 0 for both acts,
\* and the short-form coverage of an act is 1.0 whenever a record holds its
\* short form
C30_NoFalseNegative ==
    Validated =>
        /\ \A d \in Detections : d.fn = 0
        /\ \A c \in Coverages :
              c.total_with_shortform > 0 => c.coverage = Float(1, 1)

(***************************************************************************)
(* preprocess.py and embed_store.py: the document text built from a row of *)
(* the FIR table, and the tags read back from its Sections: line.  A row   *)
(* is a dict over the keys of DOCUMENT_FIELDS; a key it does not hold maps *)
(* to Absent.                                                              *)
(***************************************************************************)
RECURSIVE MaskRuns(_, _, _, _)
\* re.sub(r"\b\d{n}\b", mask, t) from offset i on
MaskRuns(t, i, n, mask) ==
    IF i >= Len(t) THEN <<>>
    ELSE IF /\ i + n <= Len(t)
            /\ AtWordBoundary(t, i)
            /\ \A k \in (i + 1)..(i + n) : IsDigit(t[k])
            /\ AtWordBoundary(t, i + n)
         THEN mask \o MaskRuns(t, i + n, n, mask)
         ELSE <<t[i + 1]>> \o MaskRuns(t, i + 1, n, mask)

\* mask_pii
mask_pii(text) ==
    IF text.type # "str" THEN <<>>
    ELSE MaskRuns(MaskRuns(text.val, 0, 12,
                           <<"[", "A", "A", "D", "H", "A", "A", "R", "_",
                             "M", "A", "S", "K", "E", "D", "]">>),
                  0, 10,
                  <<"[", "P", "H", "O", "N", "E", "_", "M", "A", "S", "K", "E", "D", "]">>)

\* _safe_value
safe_value(row, key) ==
    LET value == DictGetOr(row, key, Str(<<>>))
    IN IF value.type = "none" THEN <<>> ELSE PyStr(value)

\* the lines of the template: the label and the key of the row
DOCUMENT_FIELDS ==
    << [label |-> <<"D", "i", "s", "t", "r", "i", "c", "t">>, key |-> "district"],
       [label |-> <<"P", "o", "l", "i", "c", "e", " ", "S", "t", "a", "t", "i", "o", "n">>,
        key |-> "ps"],
       [label |-> <<"F", "I", "R", " ", "N", "u", "m", "b", "e", "r">>, key |-> "fir_srno"],
       [label |-> <<"Y", "e", "a", "r">>, key |-> "reg_year"],
       [label |-> <<"D", "a", "t", "e">>, key |-> "reg_dt"],
       [label |-> <<"S", "e", "c", "t", "i", "o", "n", "s">>, key |-> "act_section"],
       [label |-> <<"C", "o", "m", "p", "l", "a", "i", "n", "a", "n", "t">>,
        key |-> "complainantname"],
       [label |-> <<"V", "i", "c", "t", "i", "m">>, key |-> "victimname"],
       [label |-> <<"A", "c", "c", "u", "s", "e", "d">>, key |-> "fir_accused"],
       [label |-> <<"I", "O">>, key |-> "ioname"],
       [label |-> <<"F", "I", "R", " ", "C", "o", "n", "t", "e", "n", "t">>,
        key |-> "fir_contents"] >>

\* one line of the template, with the line break and indentation before it
DocumentLine(row, field) ==
    <<"\n", " ", " ", " ", " ">> \o field.label \o <<":", " ">>
        \o (IF field.key = "fir_contents"
            THEN mask_pii(Str(safe_value(row, field.key)))
            ELSE safe_value(row, field.key))

RECURSIVE DocumentFrom(_, _)
DocumentFrom(row, i) ==
    IF i > Len(DOCUMENT_FIELDS) THEN <<"\n", " ", " ", " ", " ">>
    ELSE DocumentLine(row, DOCUMENT_FIELDS[i]) \o DocumentFrom(row, i + 1)

\* build_document
build_document(row) == Str(Strip(DocumentFrom(row, 1)))

\* tag_case_record: the tags of the record and the citation line they are
\* read from
tag_case_record(case_record, reference) ==
    CHOOSE result \in
        {[tags |-> tag_sections_line(line, reference), sections_line |-> line] :
            line \in {extract_sections_line(DictGetOr(case_record, "text", Str(<<>>)))}} :
        TRUE

MaxSectionChunks == 3

\* the chunks the act_section value of a row is written from
SECTION_CHUNKS ==
    { <<"I", "P", "C">>, <<"-", "3", "7", "9">>, <<"t", "h", "e", "f", "t">>,
      <<" ">>, <<",", " ">>, <<"I_dot", "P", "C">> }

\* the act_section values a row can start from
SECTION_ARGUMENTS == {Str(<<>>), None, Absent}

\* the rest of the row: a complainant and the FIR contents, or neither
ROW_REST ==
    { [complainantname |-> Absent, fir_contents |-> Absent],
      [complainantname |-> Str(<<"R", "a", "m">>),
       fir_contents |-> Str(<<"p", "h", " ", "9", "8", "7", "6", "5", "4", "3", "2",
                             "1", "0">>)] }

\* a row of the FIR table
Row(act_section, rest) ==
    [k \in {DOCUMENT_FIELDS[i].key : i \in DOMAIN DOCUMENT_FIELDS} |->
        CASE k = "act_section" -> act_section
          [] k = "complainantname" -> rest.complainantname
          [] k = "fir_contents" -> rest.fir_contents
          [] OTHER -> Absent]

InitDocument ==
    /\ pc = "row"
    /\ sections_line = Str(<<>>)
    /\ nparts = 0
    /\ reference_ipc_sections = NoReference
    /\ act_tags = {}
    /\ all_sections = <<>>
    /\ parts = <<>>
    /\ part_idx = 0
    /\ current_tags = {}
    /\ act_to_sections = <<>>
    /\ tags = NoTags
    /\ EvalIdle
    /\ NormIdle
    /\ LoadIdle
    /\ QueryIdle
    /\ ResponseIdle
    /\ ValidateIdle
    /\ DedupIdle
    /\ fir_row \in {Row(a, rest) : a \in SECTION_ARGUMENTS, rest \in ROW_REST}
    /\ document = Unset
    /\ document_line = Unset

\* one more chunk of the row's act_section value
AddSectionChunk(c) ==
    /\ pc = "row"
    /\ fir_row.act_section.type = "str"
    /\ nparts < MaxSectionChunks
    /\ fir_row' = [fir_row EXCEPT !.act_section = Str(@.val \o c)]
    /\ nparts' = nparts + 1
    /\ UNCHANGED <<pc, sections_line, reference_ipc_sections, act_tags, all_sections,
                   parts, part_idx, current_tags, act_to_sections, tags, evalVars,
                   normVars, loadVars, queryVars, responseVars, validateVars,
                   dedupVars, document, document_line>>

\* doc = build_document(row)
BuildDocument ==
    /\ pc = "row"
    /\ document' = build_document(fir_row)
    /\ pc' = "built"
    /\ UNCHANGED <<tagVars, evalVars, normVars, loadVars, queryVars, responseVars,
                   validateVars, dedupVars, fir_row, document_line>>

\* tags = tag_case_record(meta), for the metadata that holds the document as
\* its text
TagRecord ==
    /\ pc = "built"
    /\ \E result \in {tag_case_record([text |-> document], reference_ipc_sections)} :
          /\ tags' = result.tags
          /\ document_line' = result.sections_line
    /\ pc' = "tagged"
    /\ UNCHANGED <<sections_line, nparts, reference_ipc_sections, act_tags,
                   all_sections, parts, part_idx, current_tags, act_to_sections,
                   evalVars, normVars, loadVars, queryVars, responseVars,
                   validateVars, dedupVars, fir_row, document>>

NextDocument ==
    \/ \E c \in SECTION_CHUNKS : AddSectionChunk(c)
    \/ BuildDocument
    \/ TagRecord

SpecDocument == InitDocument /\ [][NextDocument]_vars

\* the record was built and tagged
Tagged == pc = "tagged"

\* a statute name stands in the text: one of the alias patterns is found in
\* it, whatever the case of its letters
Recognizable(text) ==
    \E folded \in {FoldStr(text)} :
        \E tag \in ACT_TAGS : \E p \in ACT_ALIAS_PATTERNS[tag] : Search(p, folded)

DocumentLines == Split(document.val, "\n")

\* the line starts, after optional indentation, with Sections:
IsSectionsLine(line) ==
    LET j == SkipSpace(line, 0)
    IN /\ j + Len(SECTIONS_LABEL) <= Len(line)
       /\ SubSeq(line, j + 1, j + Len(SECTIONS_LABEL)) = SECTIONS_LABEL

\* what stands after the colon on the line, trimmed
AfterColon(line) ==
    Strip(SubSeq(line, SkipSpace(line, 0) + Len(SECTIONS_LABEL) + 1, Len(line)))

\* C26: extract_sections_line returns the trimmed remainder of the first
\* line of the text that starts, after optional indentation, with Sections:,
\* the empty string when nothing follows the colon on that line or when there
\* is no such line, and never text of the line after it
C26_RemainderOfSectionsLine ==
    Tagged =>
        LET found == {i \in DOMAIN DocumentLines : IsSectionsLine(DocumentLines[i])}
        IN document_line =
               Str(IF found = {} THEN <<>>
                   ELSE AfterColon(DocumentLines[CHOOSE i \in found :
                                                     \A j \in found : i <= j]))

(***************************************************************************)
(* The global assignment after the loop, and the acts of the result.       *)
(***************************************************************************)
\* the loop over the fragments is over and the result is not built yet
Walked == pc = "walk" /\ part_idx > Len(parts)

\* C27: when the whole string yields a code and names an act, the loop has
\* assigned a code to some act, and the global assignment after the loop
\* changes nothing
C27_SafetyNetNeverNeeded ==
    Walked =>
        /\ (all_sections # <<>> /\ act_tags # {})
              => \E tag \in DOMAIN act_to_sections : act_to_sections[tag] # {}
        /\ assign_globally(act_to_sections, all_sections, act_tags) = act_to_sections

\* a code stands before the only act of the string: the loop has given it to
\* the acts of the whole string
C27_Witness ==
    /\ Walked
    /\ parts = << <<"2", "7">>, <<"B", "N", "S">> >>
    /\ all_sections = << <<"2", "7">> >>
    /\ act_tags = {"BNS_2023"}
    /\ act_to_sections["BNS_2023"] = {<<"2", "7">>}

\* C28: a non-empty ipc_sections_raw comes with IPC_1860 in act_tags, a
\* non-empty bns_sections with BNS_2023 in act_tags, and every act of
\* shortform_hits is in act_tags
C28_SectionsAndShortFormsImplyActTag ==
    Tagged =>
        /\ tags.ipc_sections_raw # <<>> => "IPC_1860" \in Range(tags.act_tags)
        /\ tags.bns_sections # <<>> => "BNS_2023" \in Range(tags.act_tags)
        /\ Range(tags.shortform_hits) \subseteq Range(tags.act_tags)

(***************************************************************************)
(* dedup.py: the case id generated from the key fields of a row, and the   *)
(* ids that more than one row of a table has.  The values of a cell are    *)
(* texts, integers, timestamps, None, NaN and NaT.  pandas is modelled by  *)
(* what its documentation says of isna, to_datetime and value_counts; the  *)
(* SHA-1 digest is modelled as free of collisions: a digest stands for the *)
(* text that was hashed.                                                   *)
(***************************************************************************)
NaN == [type |-> "nan", val |-> <<>>]
NaT == [type |-> "nat", val |-> <<>>]
Timestamp(text) == [type |-> "timestamp", val |-> text]

\* pd.isna
isna(value) == value.type \in {"none", "nan", "nat"}

\* _clean
clean(value) ==
    IF value.type = "none" THEN <<>>
    ELSE IF isna(value) THEN <<>>
    ELSE LowerStr(Strip(PyStr(value)))

\* the text is a day, YYYY-MM-DD, with or without a time of day HH:MM:SS
IsDateText(s) ==
    LET shape == <<"d", "d", "d", "d", "-", "d", "d", "-", "d", "d", " ",
                   "d", "d", ":", "d", "d", ":", "d", "d">>
    IN /\ Len(s) \in {10, 19}
       /\ \A i \in DOMAIN s : IF shape[i] = "d" THEN IsDigit(s[i]) ELSE s[i] = shape[i]

\* pd.to_datetime(value, errors="coerce"): a text that is no date gives NaT,
\* an integer counts nanoseconds from the first day of 1970
to_datetime(value) ==
    CASE value.type = "timestamp" -> value
      [] value.type = "str" -> IF IsDateText(value.val) THEN Timestamp(value.val) ELSE NaT
      [] value.type = "int" -> Timestamp(<<"1", "9", "7", "0", "-", "0", "1", "-", "0", "1">>)
      [] OTHER -> NaT

\* _date_key: strftime("%Y-%m-%d") raises for NaT
date_key(value) ==
    IF isna(value) THEN <<>>
    ELSE LET parsed == to_datetime(value)
         IN IF parsed.type = "nat" THEN clean(value)
            ELSE SubSeq(parsed.val, 1, 10)

\* hashlib.sha1(raw_key.encode("utf-8")).hexdigest()
sha1_hexdigest(raw_key) == [sha1_of |-> raw_key]

\* the key parts of a row, in the order they are joined
key_parts(row) ==
    <<clean(DictGet(row, "district")), clean(DictGet(row, "ps")),
      clean(DictGet(row, "reg_year")), clean(DictGet(row, "fir_srno")),
      date_key(DictGet(row, "reg_dt"))>>

\* generate_case_id
generate_case_id(row) == sha1_hexdigest(Join(<<"|">>, key_parts(row)))

\* ids.value_counts(): each id with the number of rows that have it, the
\* higher counts first, in one of the orders that leaves for equal counts
value_counts(id_list) ==
    LET distinct == Range(id_list)
        count(id) == Cardinality({i \in DOMAIN id_list : id_list[i] = id})
    IN {order \in [1..Cardinality(distinct) -> distinct] :
           /\ \A i, j \in DOMAIN order : i # j => order[i] # order[j]
           /\ \A i, j \in DOMAIN order : i < j => count(order[i]) >= count(order[j])}

\* the entries for every id, those of one row included
entries_of_all(id_list, order) ==
    [k \in DOMAIN order |->
        [case_id |-> order[k],
         count |-> Cardinality({i \in DOMAIN id_list : id_list[i] = order[k]})]]

\* counts[counts > 1] as the list of entries returned
entries_of(id_list, order) ==
    SelectSeq([k \in DOMAIN order |->
                  [case_id |-> order[k],
                   count |-> Cardinality({i \in DOMAIN id_list : id_list[i] = order[k]})]],
              LAMBDA e : e.count > 1)

\* find_duplicate_case_ids: the lists it can return
find_duplicate_case_ids(table) ==
    IF table = <<>> THEN {<<>>}
    ELSE {entries_of(id_list, order) :
             id_list \in {[i \in DOMAIN table |-> generate_case_id(table[i])]},
             order \in value_counts([i \in DOMAIN table |-> generate_case_id(table[i])])}

MaxTableRows == 3

\* a row of the table over the five key columns
KeyRow(district, ps, reg_year, fir_srno, reg_dt) ==
    [district |-> district, ps |-> ps, reg_year |-> reg_year,
     fir_srno |-> fir_srno, reg_dt |-> reg_dt]

\* the rows a table can hold
TABLE_ROWS ==
    { KeyRow(Str(<<" ", "D", "h", "a", "n", "b", "a", "d", " ">>),
             Str(<<"B", "a", "g", "h", "m", "a", "r", "a">>),
             IntVal(<<"2", "0", "2", "5">>), Str(<<"1">>),
             Timestamp(<<"2", "0", "2", "5", "-", "0", "1", "-", "0", "7", " ",
                         "2", "0", ":", "0", "5", ":", "0", "0">>)),
      KeyRow(Str(<<"d", "h", "a", "n", "b", "a", "d">>),
             Str(<<"b", "a", "g", "h", "m", "a", "r", "a">>),
             Str(<<"2", "0", "2", "5">>), IntVal(<<"1">>),
             Str(<<"2", "0", "2", "5", "-", "0", "1", "-", "0", "7">>)),
      KeyRow(Str(<<"d", "h", "a", "n", "b", "a", "d">>),
             Str(<<"b", "a", "g", "h", "m", "a", "r", "a">>),
             Str(<<"2", "0", "2", "5">>), Str(<<"2">>),
             Str(<<"2", "0", "2", "5", "-", "0", "1", "-", "0", "7">>)),
      KeyRow(Str(<<"a", "|", "b">>), Str(<<"c">>), None, NaN, NaT),
      KeyRow(Str(<<"a">>), Str(<<"b", "|", "c">>), NaN, None, Str(<<>>)),
      KeyRow(NaN, None, NaN, None, Str(<<"n", "/", "a">>)) }

InitDedup ==
    /\ pc = "table"
    /\ sections_line = Str(<<>>)
    /\ nparts = 0
    /\ reference_ipc_sections = NoReference
    /\ act_tags = {}
    /\ all_sections = <<>>
    /\ parts = <<>>
    /\ part_idx = 0
    /\ current_tags = {}
    /\ act_to_sections = <<>>
    /\ tags = NoTags
    /\ EvalIdle
    /\ NormIdle
    /\ LoadIdle
    /\ QueryIdle
    /\ ResponseIdle
    /\ ValidateIdle
    /\ DocumentIdle
    /\ df = <<>>
    /\ ids = <<>>
    /\ duplicates = Unset

\* one more row in the table
AddTableRow(row) ==
    /\ pc = "table"
    /\ Len(df) < MaxTableRows
    /\ df' = Append(df, row)
    /\ UNCHANGED <<pc, tagVars, evalVars, normVars, loadVars, queryVars,
                   responseVars, validateVars, documentVars, ids, duplicates>>

\* duplicates = find_duplicate_case_ids(df)
FindDuplicates ==
    /\ pc = "table"
    /\ ids' = [i \in DOMAIN df |-> generate_case_id(df[i])]
    /\ \E result \in find_duplicate_case_ids(df) : duplicates' = Returns("list", result)
    /\ pc' = "checked"
    /\ UNCHANGED <<tagVars, evalVars, normVars, loadVars, queryVars,
                   responseVars, validateVars, documentVars, df>>

NextDedup ==
    \/ \E row \in TABLE_ROWS : AddTableRow(row)
    \/ FindDuplicates

SpecDedup == InitDedup /\ [][NextDedup]_vars

\* find_duplicate_case_ids has returned
Checked == pc = "checked"

\* the rows of the table that have the id
RowsWith(id) == {i \in DOMAIN df : ids[i] = id}

\* C24: the list holds exactly one entry for each generated id that two or
\* more rows have, with the number of those rows as its count; an id of one
\* row has no entry, and the empty table gives the empty list
C24_DuplicateEntries ==
    Checked =>
        LET entries == duplicates.val
        IN /\ \A k \in DOMAIN entries :
                 /\ entries[k].count = Cardinality(RowsWith(entries[k].case_id))
                 /\ entries[k].count >= 2
                 /\ \A m \in DOMAIN entries : m # k => entries[m].case_id # entries[k].case_id
           /\ \A i \in DOMAIN df :
                 Cardinality(RowsWith(ids[i])) >= 2
                     => \E k \in DOMAIN entries : entries[k].case_id = ids[i]
           /\ df = <<>> => entries = <<>>

\* a table of three rows, two of them with the same id
C24_Witness ==
    /\ Checked
    /\ Len(df) = 3
    /\ Len(duplicates.val) = 1
    /\ duplicates.val[1].count = 2
    /\ \E i \in DOMAIN df : Cardinality(RowsWith(ids[i])) = 1

\* the empty table
C24_WitnessEmpty == Checked /\ df = <<>> /\ duplicates = Returns("list", <<>>)

\* the normalized key of a row: the four fields as trimmed lower-case text,
\* the date as its calendar day
NormalizedKey(row) == key_parts(row)

\* C25: two rows with the same normalized key have the same id, and two rows
\* whose normalized keys differ in a field have different ids
C25_IdDependsOnlyOnNormalizedKey ==
    Checked =>
        \A i, j \in DOMAIN df :
            (NormalizedKey(df[i]) = NormalizedKey(df[j])) <=> (ids[i] = ids[j])

=============================================================================
